---- MODULE Spec2Model ----
(***************************************************************************)
(* Model of amidgo/httpmock: the call sequencing policies (SequenceCalls,  *)
(* StaticCalls), the client-side transport (NewTransport, RoundTrip,       *)
(* assert), the matcher (CompareInput and its four checks), the response   *)
(* writer and the buffering test reporter used by the repository's tests.  *)
(***************************************************************************)
EXTENDS Integers, Sequences, FiniteSets, TLC

(***************************************************************************)
(* Bounds of the model.                                                    *)
(***************************************************************************)
\* longest list of calls a policy is built from
MaxCalls == 2
\* number of requests (goroutines) that may go through one transport
MaxRequests == 2
\* largest calledTimes the policies are applied to on their own
MaxTimes == 5

(***************************************************************************)
(* Strings that are sorted or canonicalised are kept as byte sequences;    *)
(* strings that are only compared for equality are TLA+ strings.           *)
(***************************************************************************)
\* the bytes of the key strings of the model (Go compares and sorts strings
\* bytewise)
StringBytes ==
    ("key" :> <<107, 101, 121>>) @@ ("name" :> <<110, 97, 109, 101>>) @@
    ("X-A" :> <<88, 45, 65>>) @@ ("X-B" :> <<88, 45, 66>>) @@
    ("x-a" :> <<120, 45, 97>>) @@
    ("Content-Type" :> <<67, 111, 110, 116, 101, 110, 116, 45, 84, 121, 112, 101>>) @@
    ("content-type" :> <<99, 111, 110, 116, 101, 110, 116, 45, 116, 121, 112, 101>>)

\* string(bytes), on the strings of the model
BytesString(bytes) == CHOOSE str \in DOMAIN StringBytes : StringBytes[str] = bytes

NoValues == <<>>
EmptyMap == [k \in {} |-> NoValues]

\* a nil error
NilError == "nil"
\* http.StatusOK
StatusOK == 200

(***************************************************************************)
(* Body: RawBody, jsonBody, or a nil interface value.                      *)
(***************************************************************************)
NilBody == [kind |-> "nil", data |-> ""]
RawBody(bytes) == [kind |-> "raw", data |-> bytes]
JSONBody(value) == [kind |-> "json", data |-> value]

\* json.Marshal on the values the model uses: a struct with a name field,
\* and a channel, which encoding/json refuses.
JSONMarshal(value) ==
    CASE value = "struct{Name:amidman}" ->
            [bytes |-> "{\"name\":\"amidman\"}", err |-> NilError]
      [] value = "chan int" ->
            [bytes |-> "", err |-> "json: unsupported type: chan int"]

\* Body.Bytes(): RawBody returns its bytes, jsonBody marshals its value.
BodyBytes(body) ==
    IF body.kind = "json"
    THEN JSONMarshal(body.data)
    ELSE [bytes |-> body.data, err |-> NilError]

(***************************************************************************)
(* Call, Input, Response.                                                  *)
(***************************************************************************)
NilURL == [isNil |-> TRUE, Path |-> "", Query |-> EmptyMap]
URL(path, query) == [isNil |-> FALSE, Path |-> path, Query |-> query]

MkInput(method, body, header, url) ==
    [Method |-> method, Body |-> body, Header |-> header, URL |-> url]
MkResponse(status, body, header) ==
    [StatusCode |-> status, Body |-> body, Header |-> header]
MkCall(input, response, doError, delay) ==
    [Input |-> input, Response |-> response, DoError |-> doError, Delay |-> delay]

\* the zero value Call{}
ZeroCall ==
    MkCall(MkInput("", NilBody, EmptyMap, NilURL),
           MkResponse(0, NilBody, EmptyMap), NilError, 0)

QueryA == ("key" :> <<"value", "value">>) @@ ("name" :> <<"Dima">>)
HeaderA == ("X-A" :> <<"Hello">>)

CallA ==
    MkCall(MkInput("POST", RawBody("Hello World!"), HeaderA,
                   URL("/any/target", QueryA)),
           MkResponse(404, RawBody("Not Found"), HeaderA), NilError, 0)
CallB ==
    MkCall(MkInput("GET", RawBody("Hello World!"), EmptyMap, NilURL),
           MkResponse(0, NilBody, EmptyMap), NilError, 1)
CallErr ==
    MkCall(MkInput("POST", NilBody, EmptyMap, NilURL),
           MkResponse(0, NilBody, EmptyMap), "some error", 0)

\* a call whose expected body cannot be encoded
CallJ ==
    MkCall(MkInput("GET", JSONBody("chan int"), HeaderA, NilURL),
           MkResponse(404, RawBody("Not Found"), HeaderA), NilError, 0)
\* a call whose response body cannot be encoded
CallK ==
    MkCall(MkInput("GET", RawBody("Hello World!"), EmptyMap, NilURL),
           MkResponse(404, JSONBody("chan int"), HeaderA), NilError, 0)

CallSet == {CallA, CallB, CallErr}

RECURSIVE SeqsUpTo(_, _)
SeqsUpTo(S, n) ==
    IF n = 0 THEN {<<>>}
    ELSE LET shorter == SeqsUpTo(S, n - 1)
         IN  shorter \cup {Append(s, x) : s \in {t \in shorter : Len(t) = n - 1}, x \in S}

\* every list of the calls of CallSet up to MaxCalls, and the lists of one
\* call whose body cannot be encoded
CallLists == SeqsUpTo(CallSet, MaxCalls) \cup {<<CallJ>>, <<CallK>>}

(***************************************************************************)
(* Sequencing policies.  A lookup returns the pair (Call, bool) as a       *)
(* record.                                                                 *)
(***************************************************************************)
NotFound == [call |-> ZeroCall, ok |-> FALSE]
Found(c) == [call |-> c, ok |-> TRUE]

\* sequenceCalls.Call without the decrement of calledTimes
sequenceCalls_Call_noDecrement(s, calledTimes) ==
    IF calledTimes >= Len(s) THEN NotFound ELSE Found(s[calledTimes + 1])

\* sequenceCalls.Call answering past the end of the list with the zero Call
sequenceCalls_Call_pastEnd(s, calledTimes) ==
    LET index == calledTimes - 1
    IN  IF index >= Len(s) THEN Found(ZeroCall) ELSE Found(s[index + 1])

\* func (s sequenceCalls) Call(calledTimes int) (Call, bool)
sequenceCalls_Call(s, calledTimes) ==
    LET index == calledTimes - 1
    IN  IF index >= Len(s) THEN NotFound ELSE Found(s[index + 1])

\* sequenceCalls.Done satisfied by any number of requests from the length on
sequenceCalls_Done_atLeast(s, calledTimes) == calledTimes >= Len(s)

\* sequenceCalls.Done without the case of the empty list
sequenceCalls_Done_noEmptyCase(s, calledTimes) == calledTimes = Len(s)

\* func (s sequenceCalls) Done(calledTimes int) bool
sequenceCalls_Done(s, calledTimes) ==
    IF Len(s) = 0 THEN TRUE ELSE calledTimes = Len(s)

\* staticCalls.Call indexing by calledTimes instead of calledTimes - 1
staticCalls_Call_shifted(s, calledTimes) ==
    IF Len(s) = 0 THEN NotFound
    ELSE IF Len(s) = 1 \/ calledTimes = 1 THEN Found(s[1])
    ELSE LET index == calledTimes % Len(s)
         IN  Found(s[index + 1])

\* staticCalls.Call answering for an empty list with the zero Call
staticCalls_Call_emptyAnswers(s, calledTimes) ==
    IF Len(s) = 0 THEN Found(ZeroCall)
    ELSE IF Len(s) = 1 \/ calledTimes = 1 THEN Found(s[1])
    ELSE LET index == (calledTimes - 1 + Len(s)) % Len(s)
         IN  Found(s[index + 1])

\* func (s staticCalls) Call(calledTimes int) (Call, bool)
staticCalls_Call(s, calledTimes) ==
    IF Len(s) = 0 THEN NotFound
    ELSE IF Len(s) = 1 \/ calledTimes = 1 THEN Found(s[1])
    ELSE LET index == (calledTimes - 1 + Len(s)) % Len(s)
         IN  Found(s[index + 1])

\* staticCalls.Done counting like sequenceCalls.Done
staticCalls_Done_counting(s, calledTimes) ==
    IF Len(s) = 0 THEN TRUE ELSE calledTimes = Len(s)

\* func (staticCalls) Done(int) bool
staticCalls_Done(s, calledTimes) == TRUE

\* the Calls interface: dynamic dispatch on the policy's variant
\* func (h *staticHandler) nextCall of the server-side cyclic handler, on a
\* list that is not empty: the index into h.calls, from 0
staticHandler_nextCallIndex(s, calledTimes) ==
    IF Len(s) = 1 \/ calledTimes = 1 THEN 0 ELSE calledTimes % Len(s)

staticHandler_nextCall(s, calledTimes) ==
    s[staticHandler_nextCallIndex(s, calledTimes) + 1]

Calls_Call(k, s, calledTimes) ==
    IF k = "sequence" THEN sequenceCalls_Call(s, calledTimes)
    ELSE staticCalls_Call(s, calledTimes)

Calls_Done(k, s, calledTimes) ==
    IF k = "sequence" THEN sequenceCalls_Done(s, calledTimes)
    ELSE staticCalls_Done(s, calledTimes)

(***************************************************************************)
(* Library helpers the matcher relies on.                                  *)
(***************************************************************************)
\* bytewise a < b, as Go orders strings
RECURSIVE BytesLess(_, _)
BytesLess(a, b) ==
    IF b = <<>> THEN FALSE
    ELSE IF a = <<>> THEN TRUE
    ELSE IF Head(a) # Head(b) THEN Head(a) < Head(b)
    ELSE BytesLess(Tail(a), Tail(b))

StringLess(a, b) == BytesLess(StringBytes[a], StringBytes[b])

\* the keys of a map in descending order
RECURSIVE SortedKeys_descending(_)
SortedKeys_descending(keys) ==
    IF keys = {} THEN <<>>
    ELSE LET greatest == CHOOSE k \in keys : \A o \in keys \ {k} : StringLess(o, k)
         IN  <<greatest>> \o SortedKeys_descending(keys \ {greatest})

\* slices.Sort(keys) over the keys of a map: the keys in ascending order
RECURSIVE SortedKeys(_)
SortedKeys(keys) ==
    IF keys = {} THEN <<>>
    ELSE LET least == CHOOSE k \in keys : \A o \in keys \ {k} : StringLess(k, o)
         IN  <<least>> \o SortedKeys(keys \ {least})

\* strings.Join(values, ",")
RECURSIVE Join(_)
Join(values) ==
    IF values = <<>> THEN ""
    ELSE IF Len(values) = 1 THEN values[1]
    ELSE values[1] \o "," \o Join(Tail(values))

IsLower(c) == c >= 97 /\ c <= 122
IsUpper(c) == c >= 65 /\ c <= 90
IsDigit(c) == c >= 48 /\ c <= 57
\* '-' is the only other token byte the model's keys use
IsTokenByte(c) == IsLower(c) \/ IsUpper(c) \/ IsDigit(c) \/ c = 45

\* textproto.CanonicalMIMEHeaderKey on bytes: a key with a byte that is no
\* token byte is returned unchanged; otherwise the first letter and every
\* letter after '-' is upper case, every other letter lower case.
RECURSIVE CanonicalBytes(_, _)
CanonicalBytes(bytes, upper) ==
    IF bytes = <<>> THEN <<>>
    ELSE LET c == Head(bytes)
             d == IF upper /\ IsLower(c) THEN c - 32
                  ELSE IF ~upper /\ IsUpper(c) THEN c + 32
                  ELSE c
         IN  <<d>> \o CanonicalBytes(Tail(bytes), c = 45)

CanonicalMIMEHeaderKey(key) ==
    LET bytes == StringBytes[key]
    IN  IF \E i \in 1..Len(bytes) : ~IsTokenByte(bytes[i]) THEN key
        ELSE BytesString(CanonicalBytes(bytes, TRUE))

\* map lookup m[key]: the zero value (nil slice) for a missing key
MapGet(m, key) == IF key \in DOMAIN m THEN m[key] ELSE NoValues

\* http.Header.Values(key): the lookup canonicalises the key
HeaderValues(header, key) == MapGet(header, CanonicalMIMEHeaderKey(key))

\* http.Header.Add(key, value)
HeaderAdd(header, key, value) ==
    LET ck == CanonicalMIMEHeaderKey(key)
    IN  [k \in DOMAIN header \cup {ck} |->
            IF k = ck THEN Append(MapGet(header, ck), value) ELSE header[k]]

\* a header map handed to a function on its own: the nil map, or a map that
\* was made, with its entries
NilMap == [made |-> FALSE, entries |-> EmptyMap]
MadeMap(entries) == [made |-> TRUE, entries |-> entries]

(***************************************************************************)
(* Requests.  The body of a request is a reader: absent, a reader over     *)
(* bytes, or a reader that fails.                                          *)
(***************************************************************************)
NilReader == [kind |-> "nil", data |-> ""]
BytesReader(bytes) == [kind |-> "reader", data |-> bytes]
ErrorReader(err) == [kind |-> "error", data |-> err]

\* io.ReadAll
ReadAll(reader) ==
    IF reader.kind = "error"
    THEN [bytes |-> "", err |-> reader.data]
    ELSE [bytes |-> reader.data, err |-> NilError]

MkRequest(method, url, body, header) ==
    [Method |-> method, URL |-> url, Body |-> body, Header |-> header]

(***************************************************************************)
(* The matcher.  Each check yields the sequence of Errorf calls it makes,  *)
(* a call being its format and its arguments.                              *)
(***************************************************************************)
Report(format, args) == [format |-> format, args |-> args]

\* func CompareMethod
CompareMethod(requestMethod, inputMethod) ==
    IF requestMethod # inputMethod
    THEN <<Report("wrong r.Method, expected %s, actual %s",
                  <<inputMethod, requestMethod>>)>>
    ELSE <<>>

\* the loop of CompareQuery comparing the values of a key without their order
RECURSIVE CompareQueryKeys_unordered(_, _, _)
CompareQueryKeys_unordered(keys, requestQuery, inputQuery) ==
    IF keys = <<>> THEN <<>>
    ELSE LET key == Head(keys)
             inputQueryKeyValues == inputQuery[key]
             requestQueryKeyValues == MapGet(requestQuery, key)
             values(list) == {list[i] : i \in 1..Len(list)}
             here == IF values(requestQueryKeyValues) # values(inputQueryKeyValues)
                     THEN <<Report("wrong url query values by key %s, expect [%s], actual [%s]",
                                   <<key, Join(inputQueryKeyValues),
                                     Join(requestQueryKeyValues)>>)>>
                     ELSE <<>>
         IN  here \o CompareQueryKeys_unordered(Tail(keys), requestQuery, inputQuery)

\* the loop of CompareQuery over the sorted keys
RECURSIVE CompareQueryKeys(_, _, _)
CompareQueryKeys(keys, requestQuery, inputQuery) ==
    IF keys = <<>> THEN <<>>
    ELSE LET key == Head(keys)
             inputQueryKeyValues == inputQuery[key]
             requestQueryKeyValues == MapGet(requestQuery, key)
             here == IF requestQueryKeyValues # inputQueryKeyValues
                     THEN <<Report("wrong url query values by key %s, expect [%s], actual [%s]",
                                   <<key, Join(inputQueryKeyValues),
                                     Join(requestQueryKeyValues)>>)>>
                     ELSE <<>>
         IN  here \o CompareQueryKeys(Tail(keys), requestQuery, inputQuery)

\* func CompareQuery
CompareQuery(requestQuery, inputQuery) ==
    IF DOMAIN inputQuery = {} THEN <<>>
    ELSE CompareQueryKeys(SortedKeys(DOMAIN inputQuery), requestQuery, inputQuery)

\* func CompareURL
CompareURL(requestURL, inputURL) ==
    IF inputURL.isNil THEN <<>>
    ELSE (IF requestURL.Path # inputURL.Path
          THEN <<Report("wrong url.Path, expected %s, actual %s",
                        <<inputURL.Path, requestURL.Path>>)>>
          ELSE <<>>)
         \o CompareQuery(requestURL.Query, inputURL.Query)

\* CompareBody taking an absent expected body as no expectation
CompareBody_skipsNil(requestBody, inputBody) ==
    LET read == ReadAll(requestBody)
        input == BodyBytes(inputBody)
    IN  IF read.err # NilError
        THEN <<Report("read body from request, %s", <<read.err>>)>>
        ELSE IF inputBody.kind = "nil"
        THEN <<>>
        ELSE IF input.err # NilError
        THEN <<Report("read input body, %s", <<input.err>>)>>
        ELSE IF input.bytes # read.bytes
        THEN <<Report("body not equal, expected %s actual %s",
                      <<input.bytes, read.bytes>>)>>
        ELSE <<>>

\* CompareBody going on to compare after the expected body failed to encode
CompareBody_noReturn(requestBody, inputBody) ==
    LET read == ReadAll(requestBody)
        input == BodyBytes(inputBody)
    IN  IF read.err # NilError
        THEN <<Report("read body from request, %s", <<read.err>>)>>
        ELSE (IF input.err # NilError
              THEN <<Report("read input body, %s", <<input.err>>)>> ELSE <<>>)
             \o (IF input.bytes # read.bytes
                 THEN <<Report("body not equal, expected %s actual %s",
                               <<input.bytes, read.bytes>>)>>
                 ELSE <<>>)

\* func CompareBody
CompareBody(requestBody, inputBody) ==
    LET read == ReadAll(requestBody)
        input == BodyBytes(inputBody)
    IN  IF read.err # NilError
        THEN <<Report("read body from request, %s", <<read.err>>)>>
        ELSE IF input.err # NilError
        THEN <<Report("read input body, %s", <<input.err>>)>>
        ELSE IF input.bytes # read.bytes
        THEN <<Report("body not equal, expected %s actual %s",
                      <<input.bytes, read.bytes>>)>>
        ELSE <<>>

\* the loop of CompareHeader over the sorted keys
RECURSIVE CompareHeaderKeys(_, _, _)
CompareHeaderKeys(keys, requestHeader, inputHeader) ==
    IF keys = <<>> THEN <<>>
    ELSE LET key == Head(keys)
             requestHeaderKeyValues == HeaderValues(requestHeader, key)
             values == HeaderValues(inputHeader, key)
             here == IF requestHeaderKeyValues # values
                     THEN <<Report("wrong header values by key %s, expect [%s], actual [%s]",
                                   <<key, Join(values), Join(requestHeaderKeyValues)>>)>>
                     ELSE <<>>
         IN  here \o CompareHeaderKeys(Tail(keys), requestHeader, inputHeader)

\* func CompareHeader
CompareHeader(requestHeader, inputHeader) ==
    CompareHeaderKeys(SortedKeys(DOMAIN inputHeader), requestHeader, inputHeader)

\* CompareInput stopping at the first check that reports
CompareInput_failFast(r, input) ==
    LET method == CompareMethod(r.Method, input.Method)
        url == CompareURL(r.URL, input.URL)
        body == CompareBody(r.Body, input.Body)
    IN  IF method # <<>> THEN method
        ELSE IF url # <<>> THEN url
        ELSE IF body # <<>> THEN body
        ELSE CompareHeader(r.Header, input.Header)

\* func CompareInput
CompareInput(r, input) ==
    CompareMethod(r.Method, input.Method)
    \o CompareURL(r.URL, input.URL)
    \o CompareBody(r.Body, input.Body)
    \o CompareHeader(r.Header, input.Header)

(***************************************************************************)
(* Writing the response into the httptest.ResponseRecorder.                *)
(***************************************************************************)
\* the recorder before anything is written.  keeps says whether the writer
\* holds on to the header entries and the status it is given, as the recorder
\* does; writeErr is the error its Write returns.
NewRecorder ==
    [Code |-> StatusOK, Header |-> EmptyMap, Body |-> "", wroteHeader |-> FALSE,
     writeErr |-> NilError, keeps |-> TRUE]

\* a response writer that keeps the header and the status as the recorder
\* does and whose Write fails (WriteResponse and HandleCallCompareInput take
\* any http.ResponseWriter)
FailingWriter(err) == [NewRecorder EXCEPT !.writeErr = err]

\* errorWriteResponseRecorder{err} of the tests: WriteHeader(int) does
\* nothing, Header() returns a new empty map on every call, and Write returns
\* (0, err); nothing it is given is kept
errorWriteResponseRecorder(err) ==
    [NewRecorder EXCEPT !.writeErr = err, !.keeps = FALSE]

RECURSIVE AddValues(_, _, _)
AddValues(wh, key, values) ==
    IF values = <<>> THEN wh
    ELSE AddValues(HeaderAdd(wh, key, Head(values)), key, Tail(values))

RECURSIVE AddKeys(_, _, _)
AddKeys(wh, keys, header) ==
    IF keys = <<>> THEN wh
    ELSE AddKeys(AddValues(wh, Head(keys), HeaderValues(header, Head(keys))),
                 Tail(keys), header)

\* WriteHeader writing the status code as given
WriteHeader_noDefault(w, header, statusCode) ==
    IF ~w.keeps THEN w
    ELSE [w EXCEPT !.Header = AddKeys(w.Header, SortedKeys(DOMAIN header), header),
                   !.Code = statusCode,
                   !.wroteHeader = TRUE]

\* func WriteHeader: every key's values are added to the writer's header
\* (the result does not depend on the order the map is ranged over), then
\* the status code is written, 0 standing for 200.  A writer that does not
\* keep them is left as it was: the adds go to the map its Header() made for
\* the call, and its WriteHeader drops the status.
WriteHeader(w, header, statusCode) ==
    IF ~w.keeps THEN w
    ELSE [w EXCEPT !.Header = AddKeys(w.Header, SortedKeys(DOMAIN header), header),
                   !.Code = IF statusCode = 0 THEN StatusOK ELSE statusCode,
                   !.wroteHeader = TRUE]

\* func WriteBody: the recorder's Write never fails, another writer's may
WriteBody(w, body) ==
    LET got == BodyBytes(body)
    IN  IF got.err # NilError
        THEN [w |-> w,
              err |-> "get response body bytes, unexpected error: " \o got.err]
        ELSE IF w.writeErr # NilError
        THEN [w |-> w,
              err |-> "write response body, unexpected error: " \o w.writeErr]
        ELSE [w |-> [w EXCEPT !.Body = w.Body \o got.bytes], err |-> NilError]

\* func WriteResponse
WriteResponse(w, response) ==
    WriteBody(WriteHeader(w, response.Header, response.StatusCode), response.Body)

\* HandleCallCompareInput dropping the error of WriteResponse
HandleCallCompareInput_ignoresError(w, r, call) ==
    [reports |-> CompareInput(r, call.Input),
     w |-> WriteResponse(w, call.Response).w]

\* func HandleCallCompareInput, up to the delay: the Errorf calls it makes,
\* in order, and the recorder it leaves
HandleCallCompareInput(w, r, call) ==
    LET written == WriteResponse(w, call.Response)
    IN  [reports |-> CompareInput(r, call.Input)
                     \o (IF written.err # NilError
                         THEN <<Report(written.err, <<>>)>> ELSE <<>>),
         w |-> written.w]

\* the handler wrapped by NewHandlerTransport, h.ServeHTTP(w, r): it answers
\* 202 with the body of the request
ServeHTTP(w, r) ==
    [w EXCEPT !.Code = 202, !.Body = ReadAll(r.Body).bytes, !.wroteHeader = TRUE]

\* ResponseRecorder.Result()
RecorderResult(w) == [StatusCode |-> w.Code, Header |-> w.Header, Body |-> w.Body]

\* &http.Response{}
EmptyResponse == [StatusCode |-> 0, Header |-> EmptyMap, Body |-> ""]

(***************************************************************************)
(* The requests of the model.                                              *)
(***************************************************************************)
\* the request CallA expects
ReqA ==
    MkRequest("POST", URL("/any/target", QueryA), BytesReader("Hello World!"),
              HeaderA)
\* a request that differs from CallA's Input in method and header, and that
\* CallB's Input accepts
ReqB ==
    MkRequest("GET", URL("/any/target", QueryA @@ ("x-a" :> <<"1">>)),
              BytesReader("Hello World!"), ("X-B" :> <<"Hello">>))

Requests == {ReqA, ReqB}
Procs == 1..MaxRequests

(***************************************************************************)
(* State.                                                                  *)
(***************************************************************************)
VARIABLES
    kind,           \* the variant behind transport.calls: "sequence" or "static"
    calls,          \* the list the policy was built from
    reporter,       \* transport.t: the test's reporter ("mock") or nilTestReporter
    handleCall,     \* transport.handleCall: HandleCallCompareInput or a wrapped handler
    calledTimes,    \* transport.calledTimes (atomic.Int64)
    pc,             \* where each RoundTrip invocation stands
    req,            \* the request of each invocation
    num,            \* RoundTrip's local calledTimes
    got,            \* RoundTrip's local (call, ok)
    pending,        \* the Errorf calls an invocation has still to make
    rec,            \* the invocation's httptest.ResponseRecorder
    ret,            \* what RoundTrip returned: (response, error)
    errorfCalls,    \* testReporterMock.errorfCalls
    fatalfCalls,    \* testReporterMock.fatalfCalls
    cleanups,       \* the callbacks registered with Cleanup
    asserted,       \* whether the registered cleanup has run
    assertLoaded,   \* assert's local calledTimes, -1 before the Load
    callArg,        \* the calledTimes Call was last applied to on its own
    callResult,     \* what Call returned for callArg
    doneArg,        \* the calledTimes Done was last applied to on its own
    doneResult,     \* what Done returned for doneArg
    nextArg,        \* the calledTimes nextCall was last applied to on its own
    nextResult,     \* the call nextCall returned for nextArg
    cmpApplied,     \* whether the matcher has been applied on its own
    cmpReq,         \* the request it was applied to
    cmpInput,       \* the Input it was applied to
    cmpReports,     \* the Errorf calls it made, in order
    wrApplied,      \* whether WriteResponse has been applied on its own
    wrResponse,     \* the Response it was applied to
    wrOut,          \* the recorder it left and the error it returned
    hcApplied,      \* whether HandleCallCompareInput has been applied on its own
    hcArgs,         \* the writer, the request and the Call it was applied to
    hcOut,          \* the Errorf calls it made to its reporter, and the writer
                    \* as it left it
    appending,      \* the slice an unguarded Errorf has read and will append to
    headerMaps,     \* whether the Header fields of the calls are maps of their
                    \* own ("separate") or one map ("shared")
    hdr,            \* the locals of compareHeader and writeResponseHeader
    ctApplied,      \* whether ContentTypeHeader has been applied on its own
    ctHeader,       \* the map it was given, as it was before the call
    ctResult,       \* the map it returned, which is the map it was given as
                    \* the call left it, or the panic it ended in
    b64Applied,     \* whether Base64.Bytes has been applied on its own
    b64Raw,         \* the Raw bytes it was applied to
    b64Out          \* what it returned, or the panic it ended in

vars == <<kind, calls, reporter, handleCall, calledTimes, pc, req, num, got, pending, rec, ret,
          errorfCalls, fatalfCalls, cleanups, asserted, assertLoaded,
          callArg, callResult, doneArg, doneResult, nextArg, nextResult,
          cmpApplied, cmpReq, cmpInput, cmpReports, wrApplied, wrResponse, wrOut,
          hcApplied, hcArgs, hcOut,
          appending, headerMaps, hdr, ctApplied, ctHeader, ctResult,
          b64Applied, b64Raw, b64Out>>

policyVars == <<kind, calls, reporter, handleCall>>
callsVars == <<callArg, callResult, doneArg, doneResult, nextArg, nextResult>>
matchVars == <<cmpApplied, cmpReq, cmpInput, cmpReports>>
writeVars == <<wrApplied, wrResponse, wrOut, hcApplied, hcArgs, hcOut>>
mockVars == <<appending>>
headerVars == <<headerMaps, hdr, ctApplied, ctHeader, ctResult>>
base64Vars == <<b64Applied, b64Raw, b64Out>>
applyVars == <<callsVars, matchVars, writeVars, mockVars, headerVars, base64Vars>>
harnessVars == <<calledTimes, pc, req, num, got, pending, rec, ret,
                 errorfCalls, fatalfCalls, cleanups, asserted, assertLoaded>>

NoReturn == [returned |-> FALSE, resp |-> EmptyResponse, hasResp |-> FALSE,
             err |-> NilError]
Returned(resp, hasResp, err) ==
    [returned |-> TRUE, resp |-> resp, hasResp |-> hasResp, err |-> err]

\* func NewTransport: the transport after construction, its assert registered
\* as a cleanup of the test reporter
NewTransport ==
    /\ calledTimes = 0
    /\ pc = [p \in Procs |-> "idle"]
    /\ req = [p \in Procs |-> ReqA]
    /\ num = [p \in Procs |-> 0]
    /\ got = [p \in Procs |-> NotFound]
    /\ pending = [p \in Procs |-> <<>>]
    /\ rec = [p \in Procs |-> NewRecorder]
    /\ ret = [p \in Procs |-> NoReturn]
    /\ errorfCalls = <<>>
    /\ fatalfCalls = <<>>
    /\ cleanups = <<"assert">>
    /\ asserted = FALSE
    /\ assertLoaded = -1
    /\ headerMaps = "separate"

InitPolicy ==
    /\ kind \in {"sequence", "static"}
    /\ calls \in CallLists
    /\ reporter = "mock"
    /\ handleCall = "compare"

\* NewHandlerTransport over an empty staticCalls
NewHandlerTransport_noCalls ==
    /\ kind = "static"
    /\ calls = <<>>
    /\ reporter = "nil"
    /\ handleCall = "handler"
    /\ calledTimes = 0
    /\ pc = [p \in Procs |-> "idle"]
    /\ req = [p \in Procs |-> ReqA]
    /\ num = [p \in Procs |-> 0]
    /\ got = [p \in Procs |-> NotFound]
    /\ pending = [p \in Procs |-> <<>>]
    /\ rec = [p \in Procs |-> NewRecorder]
    /\ ret = [p \in Procs |-> NoReturn]
    /\ errorfCalls = <<>>
    /\ fatalfCalls = <<>>
    /\ cleanups = <<>>
    /\ asserted = FALSE
    /\ assertLoaded = -1
    /\ headerMaps = "separate"

\* func NewHandlerTransport: nilTestReporter, staticCalls{{}}, a handleCall
\* that forwards to the wrapped handler; no cleanup is registered
NewHandlerTransport ==
    /\ kind = "static"
    /\ calls = <<ZeroCall>>
    /\ reporter = "nil"
    /\ handleCall = "handler"
    /\ calledTimes = 0
    /\ pc = [p \in Procs |-> "idle"]
    /\ req = [p \in Procs |-> ReqA]
    /\ num = [p \in Procs |-> 0]
    /\ got = [p \in Procs |-> NotFound]
    /\ pending = [p \in Procs |-> <<>>]
    /\ rec = [p \in Procs |-> NewRecorder]
    /\ ret = [p \in Procs |-> NoReturn]
    /\ errorfCalls = <<>>
    /\ fatalfCalls = <<>>
    /\ cleanups = <<>>
    /\ asserted = FALSE
    /\ assertLoaded = -1
    /\ headerMaps = "separate"

\* nothing applied yet: Call takes calledTimes from 1, Done from 0
\* no Errorf call of the invocation is between its read and its write
NotAppending == [active |-> FALSE, slice |-> <<>>]

\* no range over a header map is under way
NoRange == [work |-> <<>>, key |-> "", values |-> <<>>, loaded |-> <<>>,
            reading |-> FALSE]

\* the iterations of a range over the keys of the Header of the field, in
\* the order the range takes
RECURSIVE RangeOver(_, _)
RangeOver(field, order) ==
    IF order = <<>> THEN <<>>
    ELSE <<[field |-> field, key |-> Head(order)]>> \o RangeOver(field, Tail(order))

InitApply ==
    /\ callArg = 0
    /\ callResult = NotFound
    /\ doneArg = -1
    /\ doneResult = FALSE
    /\ nextArg = 0
    /\ nextResult = ZeroCall
    /\ cmpApplied = FALSE
    /\ cmpReq = ReqA
    /\ cmpInput = ZeroCall.Input
    /\ cmpReports = <<>>
    /\ wrApplied = FALSE
    /\ wrResponse = ZeroCall.Response
    /\ wrOut = [w |-> NewRecorder, err |-> NilError]
    /\ hcApplied = FALSE
    /\ hcArgs = [w |-> NewRecorder, r |-> ReqA, call |-> ZeroCall]
    /\ hcOut = [reports |-> <<>>, w |-> NewRecorder]
    /\ appending = [g \in 0..MaxRequests |-> NotAppending]
    /\ hdr = [p \in Procs |-> NoRange]
    /\ ctApplied = FALSE
    /\ ctHeader = NilMap
    /\ ctResult = [header |-> NilMap, panic |-> "none"]
    /\ b64Applied = FALSE
    /\ b64Raw = <<>>
    /\ b64Out = [bytes |-> <<>>, panic |-> "none"]

Init ==
    /\ \/ InitPolicy /\ NewTransport
       \/ NewHandlerTransport
    /\ InitApply

(***************************************************************************)
(* The test reporter: errorfTestReporterWithCallNumber prefixes Errorf and *)
(* leaves Fatalf and Cleanup to the embedded reporter.                     *)
(***************************************************************************)
Prefix(number) == ToString(number) \o " call, "

\* Errorf left to the embedded reporter, as Fatalf is
PrefixedErrorf_noPrefix(number, report) == report

\* func (p errorfPrefixTestReporter) Errorf
PrefixedErrorf(number, report) ==
    Report(Prefix(number) \o report.format, report.args)

RECURSIVE PrefixedAll(_, _)
PrefixedAll(number, reports) ==
    IF reports = <<>> THEN <<>>
    ELSE <<PrefixedErrorf(number, Head(reports))>> \o PrefixedAll(number, Tail(reports))

NoCallsLeft == Report("no expected calls left", <<>>)

\* Errorf and Fatalf of the reporter behind the transport: testReporterMock
\* appends to its buffer, nilTestReporter does nothing
Errorf(sink, buffer, report) == IF sink = "nil" THEN buffer ELSE Append(buffer, report)
Fatalf(sink, buffer, report) == IF sink = "nil" THEN buffer ELSE Append(buffer, report)
NotAllHandled == Report("assert handler calls, not all calls were handled", <<>>)

(***************************************************************************)
(* transport.RoundTrip, one invocation per process.                        *)
(***************************************************************************)
\* h.calledTimes.Add(1): the atomic increment returns the new value
AtomicAdd(counter, delta) == counter + delta

\* RoundTrip with the counter read and written back in two steps: the value
\* an invocation increments may be the one a concurrent invocation, still in
\* flight, had read
RoundTripAdd_lostUpdate(p, r) ==
    /\ pc[p] = "idle"
    /\ \A q \in Procs : q < p => pc[q] # "idle"
    /\ \E stale \in {calledTimes} \cup
                     {num[q] - 1 : q \in {o \in Procs : pc[o] \notin {"idle", "returned"}}} :
          /\ calledTimes' = stale + 1
          /\ num' = [num EXCEPT ![p] = stale + 1]
          /\ got' = [got EXCEPT ![p] = Calls_Call(kind, calls, stale + 1)]
    /\ req' = [req EXCEPT ![p] = r]
    /\ pc' = [pc EXCEPT ![p] = "counted"]
    /\ UNCHANGED <<pending, rec, ret, errorfCalls, fatalfCalls, cleanups,
                   asserted, assertLoaded>>
    /\ UNCHANGED <<policyVars, applyVars>>

\* RoundTrip entered under a lock that a pausing invocation holds: no
\* invocation obtains its number while another one is in its Delay
RoundTripAdd_lockedByDelay(p, r) ==
    /\ pc[p] = "idle"
    /\ \A q \in Procs : q < p => pc[q] # "idle"
    /\ \A q \in Procs : pc[q] # "delay"
    /\ calledTimes' = AtomicAdd(calledTimes, 1)
    /\ num' = [num EXCEPT ![p] = calledTimes']
    /\ got' = [got EXCEPT ![p] = Calls_Call(kind, calls, calledTimes')]
    /\ req' = [req EXCEPT ![p] = r]
    /\ pc' = [pc EXCEPT ![p] = "counted"]
    /\ UNCHANGED <<pending, rec, ret, errorfCalls, fatalfCalls, cleanups,
                   asserted, assertLoaded>>
    /\ UNCHANGED <<policyVars, applyVars>>

\* calledTimes := h.calledTimes.Add(1); call, ok := h.calls.Call(int(calledTimes))
\* (the invocations are interchangeable: they are numbered in the order they
\* enter RoundTrip)
RoundTripAdd(p, r) ==
    /\ pc[p] = "idle"
    /\ \A q \in Procs : q < p => pc[q] # "idle"
    /\ calledTimes' = AtomicAdd(calledTimes, 1)
    /\ num' = [num EXCEPT ![p] = calledTimes']
    /\ got' = [got EXCEPT ![p] = Calls_Call(kind, calls, calledTimes')]
    /\ req' = [req EXCEPT ![p] = r]
    /\ pc' = [pc EXCEPT ![p] = "counted"]
    /\ UNCHANGED <<pending, rec, ret, errorfCalls, fatalfCalls, cleanups,
                   asserted, assertLoaded>>
    /\ UNCHANGED <<policyVars, applyVars>>

\* RoundTrip without the return after Fatalf: the zero Call is handled
RoundTripNoCall_noReturn(p) ==
    /\ pc[p] = "counted"
    /\ ~got[p].ok
    /\ fatalfCalls' = Append(fatalfCalls, NoCallsLeft)
    /\ LET h == HandleCallCompareInput(NewRecorder, req[p], got[p].call)
       IN  /\ pending' = [pending EXCEPT ![p] = PrefixedAll(num[p], h.reports)]
           /\ rec' = [rec EXCEPT ![p] = h.w]
    /\ pc' = [pc EXCEPT ![p] = "handling"]
    /\ UNCHANGED <<calledTimes, req, num, got, ret, errorfCalls, cleanups,
                   asserted, assertLoaded>>
    /\ UNCHANGED <<policyVars, applyVars>>

\* RoundTrip ended by Fatalf: the invocation never returns to its caller
RoundTripNoCall_stops(p) ==
    /\ pc[p] = "counted"
    /\ ~got[p].ok
    /\ fatalfCalls' = Fatalf(reporter, fatalfCalls, NoCallsLeft)
    /\ pc' = [pc EXCEPT ![p] = "stopped"]
    /\ UNCHANGED <<calledTimes, req, num, got, pending, rec, ret, errorfCalls,
                   cleanups, asserted, assertLoaded>>
    /\ UNCHANGED <<policyVars, applyVars>>

\* if !ok { t.Fatalf("no expected calls left"); return &http.Response{}, nil }
RoundTripNoCall(p) ==
    /\ pc[p] = "counted"
    /\ ~got[p].ok
    /\ fatalfCalls' = Fatalf(reporter, fatalfCalls, NoCallsLeft)
    /\ ret' = [ret EXCEPT ![p] = Returned(EmptyResponse, TRUE, NilError)]
    /\ pc' = [pc EXCEPT ![p] = "returned"]
    /\ UNCHANGED <<calledTimes, req, num, got, pending, rec, errorfCalls,
                   cleanups, asserted, assertLoaded>>
    /\ UNCHANGED <<policyVars, applyVars>>

\* RoundTrip without the DoError branch: the call is handled like any other
RoundTripDoError_ignored(p) ==
    /\ pc[p] = "counted"
    /\ got[p].ok
    /\ got[p].call.DoError # NilError
    /\ LET h == HandleCallCompareInput(NewRecorder, req[p], got[p].call)
       IN  /\ pending' = [pending EXCEPT ![p] = PrefixedAll(num[p], h.reports)]
           /\ rec' = [rec EXCEPT ![p] = h.w]
    /\ pc' = [pc EXCEPT ![p] = "handling"]
    /\ UNCHANGED <<calledTimes, req, num, got, ret, errorfCalls, fatalfCalls,
                   cleanups, asserted, assertLoaded>>
    /\ UNCHANGED <<policyVars, applyVars>>

\* if call.DoError != nil { return nil, call.DoError }
RoundTripDoError(p) ==
    /\ pc[p] = "counted"
    /\ got[p].ok
    /\ got[p].call.DoError # NilError
    /\ ret' = [ret EXCEPT ![p] = Returned(EmptyResponse, FALSE, got[p].call.DoError)]
    /\ pc' = [pc EXCEPT ![p] = "returned"]
    /\ UNCHANGED <<calledTimes, req, num, got, pending, rec, errorfCalls,
                   fatalfCalls, cleanups, asserted, assertLoaded>>
    /\ UNCHANGED <<policyVars, applyVars>>

\* handleCall with a reporter that reads the shared counter for its prefix
\* in place of the number Add returned to this invocation
RoundTripHandle_sharedNumber(p) ==
    /\ pc[p] = "counted"
    /\ got[p].ok
    /\ got[p].call.DoError = NilError
    /\ LET h == HandleCallCompareInput(NewRecorder, req[p], got[p].call)
       IN  /\ pending' = [pending EXCEPT ![p] = PrefixedAll(calledTimes, h.reports)]
           /\ rec' = [rec EXCEPT ![p] = h.w]
    /\ pc' = [pc EXCEPT ![p] = "handling"]
    /\ UNCHANGED <<calledTimes, req, num, got, ret, errorfCalls, fatalfCalls,
                   cleanups, asserted, assertLoaded>>
    /\ UNCHANGED <<policyVars, applyVars>>

\* w := httptest.NewRecorder(); handleCall(t, w, r, call): the checks are
\* evaluated and the response is written into the invocation's own recorder;
\* the Errorf calls reach the shared reporter one by one (RoundTripErrorf)
RoundTripHandle(p) ==
    /\ pc[p] = "counted"
    /\ got[p].ok
    /\ got[p].call.DoError = NilError
    /\ \E h \in {IF handleCall = "handler"
                  THEN [reports |-> <<>>, w |-> ServeHTTP(NewRecorder, req[p])]
                  ELSE HandleCallCompareInput(NewRecorder, req[p], got[p].call)} :
          /\ pending' = [pending EXCEPT ![p] = PrefixedAll(num[p], h.reports)]
          /\ rec' = [rec EXCEPT ![p] = h.w]
    /\ pc' = [pc EXCEPT ![p] = "handling"]
    /\ UNCHANGED <<calledTimes, req, num, got, ret, errorfCalls, fatalfCalls,
                   cleanups, asserted, assertLoaded>>
    /\ UNCHANGED <<policyVars, applyVars>>

\* func (tm *testReporterMock) Errorf, under the reporter's mutex
RoundTripErrorf(p) ==
    /\ pc[p] = "handling"
    /\ pending[p] # <<>>
    /\ errorfCalls' = Errorf(reporter, errorfCalls, Head(pending[p]))
    /\ pending' = [pending EXCEPT ![p] = Tail(pending[p])]
    /\ UNCHANGED <<calledTimes, pc, req, num, got, rec, ret, fatalfCalls,
                   cleanups, asserted, assertLoaded>>
    /\ UNCHANGED <<policyVars, applyVars>>

\* if call.Delay > 0 { <-time.After(call.Delay) }: the invocation waits
RoundTripDelay(p) ==
    /\ pc[p] = "handling"
    /\ pending[p] = <<>>
    /\ got[p].call.Delay > 0
    /\ pc' = [pc EXCEPT ![p] = "delay"]
    /\ UNCHANGED <<calledTimes, req, num, got, pending, rec, ret, errorfCalls,
                   fatalfCalls, cleanups, asserted, assertLoaded>>
    /\ UNCHANGED <<policyVars, applyVars>>

\* RoundTrip returning only once the teardown check has run
RoundTripReturn_afterTeardown(p) ==
    /\ asserted
    /\ \/ pc[p] = "delay"
       \/ pc[p] = "handling" /\ pending[p] = <<>> /\ got[p].call.Delay = 0
    /\ ret' = [ret EXCEPT ![p] = Returned(RecorderResult(rec[p]), TRUE, NilError)]
    /\ pc' = [pc EXCEPT ![p] = "returned"]
    /\ UNCHANGED <<calledTimes, req, num, got, pending, rec, errorfCalls,
                   fatalfCalls, cleanups, asserted, assertLoaded>>
    /\ UNCHANGED <<policyVars, applyVars>>

\* return w.Result(), nil
RoundTripReturn(p) ==
    /\ \/ pc[p] = "delay"
       \/ pc[p] = "handling" /\ pending[p] = <<>> /\ got[p].call.Delay = 0
    /\ ret' = [ret EXCEPT ![p] = Returned(RecorderResult(rec[p]), TRUE, NilError)]
    /\ pc' = [pc EXCEPT ![p] = "returned"]
    /\ UNCHANGED <<calledTimes, req, num, got, pending, rec, errorfCalls,
                   fatalfCalls, cleanups, asserted, assertLoaded>>
    /\ UNCHANGED <<policyVars, applyVars>>

\* calledTimes := h.calledTimes.Load(), the first statement of the cleanup
transport_assertLoad ==
    /\ ~asserted
    /\ cleanups = <<"assert">>
    /\ assertLoaded = -1
    /\ assertLoaded' = calledTimes
    /\ UNCHANGED <<calledTimes, pc, req, num, got, pending, rec, ret,
                   errorfCalls, fatalfCalls, cleanups, asserted>>
    /\ UNCHANGED <<policyVars, applyVars>>

\* assert reporting through Fatalf
transport_assert_fatal ==
    /\ ~asserted
    /\ assertLoaded # -1
    /\ fatalfCalls' = IF ~Calls_Done(kind, calls, assertLoaded)
                      THEN Append(fatalfCalls, NotAllHandled)
                      ELSE fatalfCalls
    /\ asserted' = TRUE
    /\ UNCHANGED <<calledTimes, pc, req, num, got, pending, rec, ret,
                   errorfCalls, cleanups, assertLoaded>>
    /\ UNCHANGED <<policyVars, applyVars>>

\* func (h *transport) assert after the Load: if !h.calls.Done(int(calledTimes))
\* { h.t.Errorf(...) }, and the cleanup returns
transport_assert ==
    /\ ~asserted
    /\ assertLoaded # -1
    /\ errorfCalls' = IF ~Calls_Done(kind, calls, assertLoaded)
                      THEN Append(errorfCalls, NotAllHandled)
                      ELSE errorfCalls
    /\ asserted' = TRUE
    /\ UNCHANGED <<calledTimes, pc, req, num, got, pending, rec, ret,
                   fatalfCalls, cleanups, assertLoaded>>
    /\ UNCHANGED <<policyVars, applyVars>>

Next ==
    \/ \E p \in Procs, r \in Requests : RoundTripAdd(p, r)
    \/ \E p \in Procs : RoundTripNoCall(p)
    \/ \E p \in Procs : RoundTripDoError(p)
    \/ \E p \in Procs : RoundTripHandle(p)
    \/ \E p \in Procs : RoundTripErrorf(p)
    \/ \E p \in Procs : RoundTripDelay(p)
    \/ \E p \in Procs : RoundTripReturn(p)
    \/ transport_assertLoad
    \/ transport_assert

Spec == Init /\ [][Next]_vars

\* the steps of RoundTrip after handleCall was entered, and its two early
\* returns: the goroutine of an invocation runs on its own, and time.After
\* fires after a finite Delay
RoundTripStep(p) ==
    \/ RoundTripNoCall(p)
    \/ RoundTripDoError(p)
    \/ RoundTripErrorf(p)
    \/ RoundTripDelay(p)
    \/ RoundTripReturn(p)

\* the guard of RoundTripHandle: the state predicate ENABLED RoundTripHandle(p)
CanHandle(p) == pc[p] = "counted" /\ got[p].ok /\ got[p].call.DoError = NilError

\* WF_vars(RoundTripHandle(p)), its ENABLED written as the guard CanHandle(p)
RoundTripHandleFair(p) ==
    ([]<>~CanHandle(p)) \/ ([]<><<RoundTripHandle(p)>>_vars)

\* the steps of Next with every request sent being ReqB: what a request holds
\* decides only which reports its invocation makes, two against CallA and
\* none against CallB
NextLive ==
    \/ \E p \in Procs : RoundTripAdd(p, ReqB)
    \/ \E p \in Procs : RoundTripNoCall(p)
    \/ \E p \in Procs : RoundTripDoError(p)
    \/ \E p \in Procs : RoundTripHandle(p)
    \/ \E p \in Procs : RoundTripErrorf(p)
    \/ \E p \in Procs : RoundTripDelay(p)
    \/ \E p \in Procs : RoundTripReturn(p)
    \/ transport_assertLoad
    \/ transport_assert

\* the transport with every started invocation scheduled: a goroutine that
\* can take its next step eventually takes it; nothing is assumed about
\* callers sending requests or about the teardown being run
SpecLive ==
    /\ Init /\ [][NextLive]_vars
    /\ \A p \in Procs : WF_vars(RoundTripStep(p)) /\ RoundTripHandleFair(p)

\* the largest number of requests a transport receives when its callers
\* send one request after another: three more than the longest list that such
\* a transport is built over has calls
MaxRepeat == MaxCalls + 2

\* the caller that RoundTrip has returned to sends its next request: the
\* invocation that returned is over, its locals are gone, and the goroutine
\* is free to enter RoundTrip again
RoundTripAgain(p) ==
    /\ pc[p] = "returned"
    /\ calledTimes < MaxRepeat
    /\ pc' = [pc EXCEPT ![p] = "idle"]
    /\ req' = [req EXCEPT ![p] = ReqA]
    /\ num' = [num EXCEPT ![p] = 0]
    /\ got' = [got EXCEPT ![p] = NotFound]
    /\ pending' = [pending EXCEPT ![p] = <<>>]
    /\ rec' = [rec EXCEPT ![p] = NewRecorder]
    /\ ret' = [ret EXCEPT ![p] = NoReturn]
    /\ UNCHANGED <<calledTimes, errorfCalls, fatalfCalls, cleanups, asserted,
                   assertLoaded>>
    /\ UNCHANGED <<policyVars, applyVars>>

\* the steps of NextLive, and callers that send further requests
NextRepeat ==
    \/ \E p \in Procs : RoundTripAdd(p, ReqB)
    \/ \E p \in Procs : RoundTripNoCall(p)
    \/ \E p \in Procs : RoundTripDoError(p)
    \/ \E p \in Procs : RoundTripHandle(p)
    \/ \E p \in Procs : RoundTripErrorf(p)
    \/ \E p \in Procs : RoundTripDelay(p)
    \/ \E p \in Procs : RoundTripReturn(p)
    \/ \E p \in Procs : RoundTripAgain(p)
    \/ transport_assertLoad
    \/ transport_assert

\* NewTransport over SequenceCalls of a list short enough for MaxRepeat
\* requests to go two beyond its end
InitRepeat ==
    /\ Init
    /\ kind = "sequence"
    /\ Len(calls) < MaxCalls

\* the transport whose callers go on sending requests, up to MaxRepeat
SpecRepeat == InitRepeat /\ [][NextRepeat]_vars

(***************************************************************************)
(* The policies on their own: Call and Done applied to every calledTimes   *)
(* up to MaxTimes, for every list of the model.                            *)
(***************************************************************************)
ApplyCall(n) ==
    /\ callArg' = n
    /\ callResult' = Calls_Call(kind, calls, n)
    /\ UNCHANGED <<doneArg, doneResult, nextArg, nextResult>>
    /\ UNCHANGED <<policyVars, harnessVars, matchVars, writeVars, mockVars, headerVars, base64Vars>>

ApplyDone(n) ==
    /\ doneArg' = n
    /\ doneResult' = Calls_Done(kind, calls, n)
    /\ UNCHANGED <<callArg, callResult, nextArg, nextResult>>
    /\ UNCHANGED <<policyVars, harnessVars, matchVars, writeVars, mockVars, headerVars, base64Vars>>

\* the server-side handlers are built over a list that is not empty
ApplyNextCall(n) ==
    /\ calls # <<>>
    /\ nextArg' = n
    /\ nextResult' = staticHandler_nextCall(calls, n)
    /\ UNCHANGED <<callArg, callResult, doneArg, doneResult>>
    /\ UNCHANGED <<policyVars, harnessVars, matchVars, writeVars, mockVars, headerVars, base64Vars>>

NextCalls ==
    \/ \E n \in 1..MaxTimes : ApplyCall(n)
    \/ \E n \in 0..MaxTimes : ApplyDone(n)
    \/ \E n \in 1..MaxTimes : ApplyNextCall(n)

SpecCalls == Init /\ [][NextCalls]_vars

(***************************************************************************)
(* The matcher and the response writer on their own: CompareInput applied  *)
(* to a request and an Input, WriteResponse applied to a Response and a    *)
(* fresh recorder, for every combination of the values below.              *)
(***************************************************************************)
QueryAB == ("key" :> <<"a", "b">>) @@ ("name" :> <<"Dima">>)
HeaderAB == ("X-A" :> <<"Hello">>) @@ ("X-B" :> <<"a", "b">>)
\* a header map built as a literal, its key not in canonical form
HeaderLower == ("x-a" :> <<"1">>)

MatchPaths == {"/any/target", "/any/targt"}
InputQueries == {EmptyMap, QueryA, QueryAB}
RequestQueries ==
    {EmptyMap, QueryA, ("key" :> <<"b", "a">>),
     ("key" :> <<"value">>) @@ ("x-a" :> <<"1">>)}
InputHeaders == {EmptyMap, HeaderA, HeaderAB, HeaderLower}
RequestHeaders ==
    {EmptyMap, HeaderA, ("X-A" :> <<"Hello">>) @@ ("X-B" :> <<"b", "a">>),
     ("X-A" :> <<"1">>) @@ ("X-B" :> <<"a", "b">>)}
InputBodies ==
    {NilBody, RawBody("Hello World!"), RawBody("HelloWorld!"),
     JSONBody("struct{Name:amidman}"), JSONBody("chan int")}
RequestBodies ==
    {NilReader, BytesReader(""), BytesReader("Hello World!"),
     BytesReader("{\"name\":\"amidman\"}"), ErrorReader("unexpected EOF")}

MatchInputs ==
    {MkInput(m, b, h, u) :
        m \in {"POST", "PUT"}, b \in InputBodies, h \in InputHeaders,
        u \in {NilURL} \cup {URL(path, q) : path \in MatchPaths, q \in InputQueries}}
MatchRequests ==
    {MkRequest(m, u, b, h) :
        m \in {"POST", "GET"},
        u \in {URL(path, q) : path \in MatchPaths, q \in RequestQueries},
        b \in RequestBodies, h \in RequestHeaders}

WriteResponses ==
    {MkResponse(code, b, h) :
        code \in {0, 200, 204, 404, 500},
        b \in {NilBody, RawBody("Not Found"), JSONBody("struct{Name:amidman}"),
               JSONBody("chan int")},
        h \in {EmptyMap, HeaderA, HeaderAB, ("X-B" :> <<"a", "a">>), HeaderLower,
               HeaderLower @@ ("X-A" :> <<"2">>)}}

\* the recorder of the transport, the writer of
\* Test_HandleCallCompareInput_FailedWriteToResponseWriter, and a writer that
\* keeps what it is given and cannot be written to
Writers ==
    {NewRecorder, errorWriteResponseRecorder("short write"),
     FailingWriter("short write")}

ApplyCompare(r, input) ==
    /\ ~cmpApplied
    /\ cmpApplied' = TRUE
    /\ cmpReq' = r
    /\ cmpInput' = input
    /\ cmpReports' = CompareInput(r, input)
    /\ UNCHANGED <<policyVars, harnessVars, callsVars, writeVars, mockVars, headerVars, base64Vars>>

ApplyWrite(response, w) ==
    /\ ~wrApplied
    /\ wrApplied' = TRUE
    /\ wrResponse' = response
    /\ wrOut' = WriteResponse(w, response)
    /\ UNCHANGED <<hcApplied, hcArgs, hcOut>>
    /\ UNCHANGED <<policyVars, harnessVars, callsVars, matchVars, mockVars, headerVars, base64Vars>>

\* HandleCallCompareInput(t, w, r, call) called by a test on its own, with a
\* writer and a reporter of the test's (what is left of it after the Errorf
\* calls and the write is the pause of call.Delay)
ApplyHandleCall(w, r, call) ==
    /\ ~hcApplied
    /\ hcApplied' = TRUE
    /\ hcArgs' = [w |-> w, r |-> r, call |-> call]
    /\ hcOut' = HandleCallCompareInput(w, r, call)
    /\ UNCHANGED <<wrApplied, wrResponse, wrOut>>
    /\ UNCHANGED <<policyVars, harnessVars, callsVars, matchVars, mockVars, headerVars, base64Vars>>

\* func ContentTypeHeader(contentType, header): header.Add("Content-Type",
\* contentType) on the map it is given, which it returns; Add assigns to an
\* entry of the map and panics on the nil map
ContentTypeHeader(contentType, header) ==
    IF ~header.made
    THEN [header |-> header, panic |-> "assignment to entry in nil map"]
    ELSE [header |-> MadeMap(HeaderAdd(header.entries, "Content-Type", contentType)),
          panic |-> "none"]

\* func JSONContentTypeHeader(header)
JSONContentTypeHeader(header) == ContentTypeHeader("application/json", header)

ContentTypes == {"text/plain", "text/html"}
ContentTypeMaps ==
    {NilMap} \cup {MadeMap(h) : h \in {EmptyMap, HeaderA,
                                       ("Content-Type" :> <<"text/plain">>),
                                       ("content-type" :> <<"text/plain">>)}}

ApplyContentTypeHeader(contentType, header) ==
    /\ ~ctApplied
    /\ ctApplied' = TRUE
    /\ ctHeader' = header
    /\ ctResult' = ContentTypeHeader(contentType, header)
    /\ UNCHANGED <<headerMaps, hdr>>
    /\ UNCHANGED <<policyVars, harnessVars, callsVars, matchVars, writeVars,
                   mockVars, base64Vars>>

ApplyJSONContentTypeHeader(header) ==
    /\ ~ctApplied
    /\ ctApplied' = TRUE
    /\ ctHeader' = header
    /\ ctResult' = JSONContentTypeHeader(header)
    /\ UNCHANGED <<headerMaps, hdr>>
    /\ UNCHANGED <<policyVars, harnessVars, callsVars, matchVars, writeVars,
                   mockVars, base64Vars>>

InitMatch ==
    /\ kind = "sequence"
    /\ calls = <<>>
    /\ reporter = "mock"
    /\ handleCall = "compare"
    /\ NewTransport
    /\ InitApply

NextMatch ==
    /\ ~cmpApplied
    /\ \E r \in MatchRequests, input \in MatchInputs : ApplyCompare(r, input)

SpecMatch == InitMatch /\ [][NextMatch]_vars

NextWrite ==
    \/ /\ ~wrApplied
       /\ \E response \in WriteResponses, w \in Writers : ApplyWrite(response, w)
    \/ \E contentType \in ContentTypes, header \in ContentTypeMaps :
           ApplyContentTypeHeader(contentType, header)
    \/ \E header \in ContentTypeMaps : ApplyJSONContentTypeHeader(header)

SpecWrite == InitMatch /\ [][NextWrite]_vars

\* the calls HandleCallCompareInput is applied to on its own: those of the
\* transport's model and the call of
\* Test_HandleCallCompareInput_FailedWriteToResponseWriter
CallW ==
    MkCall(MkInput("GET", NilBody, EmptyMap, NilURL),
           MkResponse(200, RawBody("Hello World"), EmptyMap), NilError, 0)
HandleCalls == CallSet \cup {CallJ, CallK, CallW}

\* NewTransport over SequenceCalls of one call
InitHandle ==
    /\ Init
    /\ kind = "sequence"
    /\ Len(calls) = 1

\* the steps of Next, and HandleCallCompareInput applied on its own to a
\* recorder or to a writer whose Write fails
NextHandle ==
    \/ \E p \in Procs, r \in Requests : RoundTripAdd(p, r)
    \/ \E p \in Procs : RoundTripNoCall(p)
    \/ \E p \in Procs : RoundTripDoError(p)
    \/ \E p \in Procs : RoundTripHandle(p)
    \/ \E p \in Procs : RoundTripErrorf(p)
    \/ \E p \in Procs : RoundTripDelay(p)
    \/ \E p \in Procs : RoundTripReturn(p)
    \/ transport_assertLoad
    \/ transport_assert
    \/ \E w \in Writers, r \in Requests, call \in HandleCalls :
           ApplyHandleCall(w, r, call)

SpecHandle == InitHandle /\ [][NextHandle]_vars

(***************************************************************************)
(* The server-side harness (server.go, body.go, test_reporter.go): the     *)
(* handlers behind NewServer and NewStaticServer.  One process per request *)
(* received; the fields of the handler, the invocation's locals and the    *)
(* reporter live in the variables of the transport.  The headers that      *)
(* net/http itself adds to a request or a response are left out.           *)
(***************************************************************************)
\* a Call of server.go: it has no Method and no DoError
ServerCall(body, header, url, response, delay) ==
    MkCall(MkInput("", body, header, url), response, NilError, delay)

SCallA ==
    ServerCall(RawBody("Hello World!"), HeaderA, URL("/any/target", QueryA),
               MkResponse(404, RawBody("Not Found"), HeaderA), 0)
SCallB ==
    ServerCall(NilBody, EmptyMap, NilURL, MkResponse(0, NilBody, EmptyMap), 1)
\* a call whose expected body is a JSON of a channel
SCallJ ==
    ServerCall(JSONBody("chan int"), EmptyMap, NilURL,
               MkResponse(0, NilBody, EmptyMap), 0)

ServerCallSet == {SCallA, SCallB, SCallJ}
ServerCallLists == SeqsUpTo(ServerCallSet, MaxCalls)

NoPanic == "none"

\* Body.Bytes() of body.go: RawBody returns its bytes, NoBody none, and
\* JSON.Bytes panics when json.Marshal fails
JSON_Bytes(value) ==
    LET marshalled == JSONMarshal(value)
    IN  IF marshalled.err # NilError
        THEN [bytes |-> "", panic |-> "marshal json input, " \o marshalled.err]
        ELSE [bytes |-> marshalled.bytes, panic |-> NoPanic]

Body_Bytes(body) ==
    IF body.kind = "json" THEN JSON_Bytes(body.data)
    ELSE [bytes |-> body.data, panic |-> NoPanic]

\* a []string under the verb %v
RECURSIVE JoinSpace(_)
JoinSpace(values) ==
    IF values = <<>> THEN ""
    ELSE IF Len(values) = 1 THEN values[1]
    ELSE values[1] \o " " \o JoinSpace(Tail(values))

FormatV(values) == "[" \o JoinSpace(values) \o "]"

\* the orders a range over a map with these keys can take
Orders(keys) ==
    {order \in [1..Cardinality(keys) -> keys] :
        \A i, j \in 1..Cardinality(keys) : i # j => order[i] # order[j]}

\* func compareQuery, the map ranged over in the given order
RECURSIVE compareQueryKeys(_, _, _)
compareQueryKeys(order, requestQuery, inputQuery) ==
    IF order = <<>> THEN <<>>
    ELSE LET key == Head(order)
             values == inputQuery[key]
             requestQueryKeyValues == MapGet(requestQuery, key)
             here == IF requestQueryKeyValues # values
                     THEN <<Report("wrong url query values by key %s, expect %v, actual %v",
                                   <<key, FormatV(values), FormatV(requestQueryKeyValues)>>)>>
                     ELSE <<>>
         IN  here \o compareQueryKeys(Tail(order), requestQuery, inputQuery)

compareQuery(requestQuery, inputQuery, order) ==
    IF DOMAIN inputQuery = {} THEN <<>>
    ELSE compareQueryKeys(order, requestQuery, inputQuery)

\* func compareURL
compareURL(requestURL, inputURL, order) ==
    IF inputURL.isNil THEN <<>>
    ELSE (IF requestURL.Path # inputURL.Path
          THEN <<Report("wrong url.Path, expected %s, actual %s",
                        <<inputURL.Path, requestURL.Path>>)>>
          ELSE <<>>)
         \o compareQuery(requestURL.Query, inputURL.Query, order)

\* func compareBody: the reports, and the panic of inputBody.Bytes() if any
compareBody(requestBody, inputBody) ==
    LET read == ReadAll(requestBody)
        input == Body_Bytes(inputBody)
    IN  IF read.err # NilError
        THEN [reports |-> <<Report("read body from request, %s", <<read.err>>)>>,
              panic |-> NoPanic]
        ELSE IF input.panic # NoPanic
        THEN [reports |-> <<>>, panic |-> input.panic]
        ELSE IF input.bytes # read.bytes
        THEN [reports |-> <<Report("body not equal,\nexpected %s\nactual %s",
                                   <<input.bytes, read.bytes>>)>>,
              panic |-> NoPanic]
        ELSE [reports |-> <<>>, panic |-> NoPanic]

\* func compareHeader, the map ranged over in the given order
RECURSIVE compareHeader(_, _, _)
compareHeader(requestHeader, inputHeader, order) ==
    IF order = <<>> THEN <<>>
    ELSE LET key == Head(order)
             requestHeaderKeyValues == HeaderValues(requestHeader, key)
             values == HeaderValues(inputHeader, key)
             here == IF requestHeaderKeyValues # values
                     THEN <<Report("wrong header values by key %s, expect %v, actual %v",
                                   <<key, FormatV(values), FormatV(requestHeaderKeyValues)>>)>>
                     ELSE <<>>
         IN  here \o compareHeader(requestHeader, inputHeader, Tail(order))

\* func compareInput: URL, body, header; a panic of the body check ends it
compareInput(r, input, queryOrder, headerOrder) ==
    LET url == compareURL(r.URL, input.URL, queryOrder)
        body == compareBody(r.Body, input.Body)
    IN  IF body.panic # NoPanic
        THEN [reports |-> url, panic |-> body.panic]
        ELSE [reports |-> url \o body.reports
                          \o compareHeader(r.Header, input.Header, headerOrder),
              panic |-> NoPanic]

\* the loop of writeResponseHeader run by one goroutine with no other
\* goroutine using the map: header.Add(key, value) for every value of every
\* key, on the header of the Response itself (the keys of the model's server
\* calls are canonical, so no key is added during the range).  The handler
\* of the server takes the loop one read and one write at a time
\* (ServeHTTPValues, ServeHTTPAddLoad, ServeHTTPAddStore).
RECURSIVE addToItself(_, _)
addToItself(header, order) ==
    IF order = <<>> THEN header
    ELSE addToItself(AddValues(header, Head(order), HeaderValues(header, Head(order))),
                     Tail(order))

\* func writeResponseHeader: the writer it leaves and, run with no other
\* goroutine using the map, the Response's header it leaves
writeResponseHeader(w, response, order) ==
    [w |-> [w EXCEPT !.Code = IF response.StatusCode = 0 THEN StatusOK
                              ELSE response.StatusCode,
                     !.wroteHeader = TRUE],
     header |-> addToItself(response.Header, order)]

\* func writeResponseBody
writeResponseBody(w, body) ==
    IF body.kind = "nil"
    THEN [w |-> w, reports |-> <<>>, panic |-> NoPanic]
    ELSE LET encoded == Body_Bytes(body)
         IN  IF encoded.panic # NoPanic
             THEN [w |-> w, reports |-> <<>>, panic |-> encoded.panic]
             ELSE IF w.writeErr # NilError
             THEN [w |-> w,
                   reports |-> <<Report("write response bytes, %s", <<w.writeErr>>)>>,
                   panic |-> NoPanic]
             ELSE [w |-> [w EXCEPT !.Body = w.Body \o encoded.bytes],
                   reports |-> <<>>, panic |-> NoPanic]

\* func handleCall of server.go up to the delay, run with no other
\* goroutine using the maps of the call: compareInput, then writeResponse
server_handleCall(w, r, call, queryOrder, headerOrder, responseOrder) ==
    LET compared == compareInput(r, call.Input, queryOrder, headerOrder)
        head == writeResponseHeader(w, call.Response, responseOrder)
        body == writeResponseBody(head.w, call.Response.Body)
    IN  IF compared.panic # NoPanic
        THEN [reports |-> compared.reports, w |-> w,
              header |-> call.Response.Header, panic |-> compared.panic]
        ELSE [reports |-> compared.reports \o body.reports, w |-> body.w,
              header |-> head.header, panic |-> body.panic]

\* func (p prefixTestReporter) Errorf
prefixTestReporter_Errorf(number, report) ==
    Report(Prefix(number) \o report.format, report.args)

RECURSIVE prefixTestReporter_All(_, _)
prefixTestReporter_All(number, reports) ==
    IF reports = <<>> THEN <<>>
    ELSE <<prefixTestReporter_Errorf(number, Head(reports))>>
         \o prefixTestReporter_All(number, Tail(reports))

UnexpectedZeroCall == Report("unexpected call to zero calls handler", <<>>)
LimitExceeded == Report("call count limit exceeded", <<>>)

\* what the client receives when the handler returns: the status, the
\* headers and the body the handler wrote, 200 and nothing if it wrote
\* nothing
ServerResult(w) == RecorderResult(w)

\* what the client receives when the handler panics: the server drops the
\* connection
ConnectionDropped == Returned(EmptyResponse, FALSE, "EOF")

\* func NewServer, func NewStaticServer: with no calls the handler is a
\* zeroCallsHandler; NewServer with calls registers handler.assert
InitServerMaps(maps) ==
    /\ kind \in {"NewServer", "NewStaticServer"}
    /\ calls \in ServerCallLists
    /\ reporter = "mock"
    /\ handleCall = "compare"
    /\ calledTimes = 0
    /\ pc = [p \in Procs |-> "idle"]
    /\ req = [p \in Procs |-> ReqA]
    /\ num = [p \in Procs |-> 0]
    /\ got = [p \in Procs |-> NotFound]
    /\ pending = [p \in Procs |-> <<>>]
    /\ rec = [p \in Procs |-> NewRecorder]
    /\ ret = [p \in Procs |-> NoReturn]
    /\ errorfCalls = <<>>
    /\ fatalfCalls = <<>>
    /\ cleanups = IF kind = "NewServer" /\ calls # <<>> THEN <<"assert">> ELSE <<>>
    /\ asserted = FALSE
    /\ assertLoaded = -1
    /\ headerMaps = maps
    /\ InitApply

\* the calls built with a map of its own in every Header field
InitServer == InitServerMaps("separate")

\* the calls built as server_test.go builds them: one map is the Header of
\* every Input and of every Response that has one
InitServerShared == InitServerMaps("shared")

\* zeroCallsHandler.ServeHTTP reporting through Fatalf
zeroCallsHandler_ServeHTTP_fatal(p, r) ==
    /\ calls = <<>>
    /\ pc[p] = "idle"
    /\ \A q \in Procs : q < p => pc[q] # "idle"
    /\ req' = [req EXCEPT ![p] = r]
    /\ fatalfCalls' = Fatalf(reporter, fatalfCalls, UnexpectedZeroCall)
    /\ pc' = [pc EXCEPT ![p] = "zero"]
    /\ UNCHANGED <<calledTimes, num, got, pending, rec, ret, errorfCalls, cleanups,
                   asserted, assertLoaded>>
    /\ UNCHANGED <<policyVars, applyVars>>

\* func (z *zeroCallsHandler) ServeHTTP is entered for a request: its one
\* statement is z.t.Errorf("unexpected call to zero calls handler"), nothing
\* is written
zeroCallsHandler_ServeHTTP(p, r) ==
    /\ calls = <<>>
    /\ pc[p] = "idle"
    /\ \A q \in Procs : q < p => pc[q] # "idle"
    /\ req' = [req EXCEPT ![p] = r]
    /\ pending' = [pending EXCEPT ![p] = <<UnexpectedZeroCall>>]
    /\ pc' = [pc EXCEPT ![p] = "zero"]
    /\ UNCHANGED <<calledTimes, num, got, rec, ret, errorfCalls, fatalfCalls,
                   cleanups, asserted, assertLoaded>>
    /\ UNCHANGED <<policyVars, applyVars>>

\* calledTimes := h.calledTimes.Add(1), of handler and of staticHandler
ServeHTTPAdd(p, r) ==
    /\ calls # <<>>
    /\ pc[p] = "idle"
    /\ \A q \in Procs : q < p => pc[q] # "idle"
    /\ calledTimes' = AtomicAdd(calledTimes, 1)
    /\ num' = [num EXCEPT ![p] = calledTimes']
    /\ req' = [req EXCEPT ![p] = r]
    /\ pc' = [pc EXCEPT ![p] = "counted"]
    /\ UNCHANGED <<got, pending, rec, ret, errorfCalls, fatalfCalls, cleanups,
                   asserted, assertLoaded>>
    /\ UNCHANGED <<policyVars, applyVars>>

\* if calledTimes > int64(len(h.calls)) { h.t.Fatalf(...); return }
handler_Exceeded(p) ==
    /\ kind = "NewServer"
    /\ pc[p] = "counted"
    /\ num[p] > Len(calls)
    /\ fatalfCalls' = Fatalf(reporter, fatalfCalls, LimitExceeded)
    /\ ret' = [ret EXCEPT ![p] = Returned(ServerResult(NewRecorder), TRUE, NilError)]
    /\ pc' = [pc EXCEPT ![p] = "returned"]
    /\ UNCHANGED <<calledTimes, req, num, got, pending, rec, errorfCalls,
                   cleanups, asserted, assertLoaded>>
    /\ UNCHANGED <<policyVars, applyVars>>

\* the index, from 1, of the call the handler takes for calledTimes:
\* h.calls[calledTimes-1] in handler, h.nextCall(calledTimes) in staticHandler
ServerCallIndex(k, s, number) ==
    IF k = "NewServer" THEN number
    ELSE staticHandler_nextCallIndex(s, number) + 1

\* the index of the call of invocation p
CallIndexOf(p) == ServerCallIndex(kind, calls, num[p])

\* a Header field of a Call is a reference to a map: the copy of the Call
\* that handleCall receives refers to the maps of the configured Call.  The
\* maps as they are now:
InputHeaderNow(p) == calls[CallIndexOf(p)].Input.Header
ResponseHeaderNow(p) == calls[CallIndexOf(p)].Response.Header

\* every Header field that is not nil refers to the one shared map
RECURSIVE ShareHeader(_, _)
ShareHeader(s, header) ==
    IF s = <<>> THEN <<>>
    ELSE <<[Head(s) EXCEPT
               !.Input.Header = IF DOMAIN @ = {} THEN @ ELSE header,
               !.Response.Header = IF DOMAIN @ = {} THEN @ ELSE header]>>
         \o ShareHeader(Tail(s), header)

\* the calls once the map behind Response.Header of call i holds header
StoreHeader(s, maps, i, header) ==
    IF maps = "shared" THEN ShareHeader(s, header)
    ELSE [s EXCEPT ![i].Response.Header = header]

\* h[key] = append(h[key], value) of Header.Add, the append made to the
\* values that were loaded
HeaderStore(header, key, loaded, value) ==
    LET ck == CanonicalMIMEHeaderKey(key)
    IN  [k \in DOMAIN header \cup {ck} |->
            IF k = ck THEN Append(loaded, value) ELSE header[k]]

\* handleCall(t, w, r, call) up to the range of compareHeader: compareURL
\* and compareBody are evaluated, their Errorf calls reach the reporter one
\* by one (ServeHTTPErrorf); the orders that the range of compareHeader and
\* the range of writeResponseHeader will take over the keys are drawn here
ServeHTTPHandle(p) ==
    /\ calls # <<>>
    /\ pc[p] = "counted"
    /\ kind = "NewServer" => num[p] <= Len(calls)
    /\ LET call == calls[CallIndexOf(p)]
       IN  \E queryOrder \in Orders(DOMAIN call.Input.URL.Query),
              headerOrder \in Orders(DOMAIN call.Input.Header),
              responseOrder \in Orders(DOMAIN call.Response.Header) :
              LET url == compareURL(req[p].URL, call.Input.URL, queryOrder)
                  body == compareBody(req[p].Body, call.Input.Body)
              IN  /\ got' = [got EXCEPT ![p] = Found(call)]
                  /\ pending' = [pending EXCEPT
                        ![p] = prefixTestReporter_All(num[p], url \o body.reports)]
                  /\ hdr' = [hdr EXCEPT
                        ![p] = [NoRange EXCEPT
                                   !.work = RangeOver("Input", headerOrder)
                                            \o RangeOver("Response", responseOrder)]]
                  /\ pc' = [pc EXCEPT ![p] = IF body.panic # NoPanic THEN "panicking"
                                            ELSE "comparing"]
    /\ UNCHANGED <<calledTimes, req, num, rec, ret, errorfCalls, fatalfCalls,
                   cleanups, asserted, assertLoaded>>
    /\ UNCHANGED <<policyVars, callsVars, matchVars, writeVars, mockVars,
                   headerMaps, ctApplied, ctHeader, ctResult, base64Vars>>

\* p.t.Errorf(p.prefix+format, args...): one report reaches a reporter that
\* records each call in one step
ServeHTTPErrorf(p) ==
    /\ pc[p] \in {"zero", "comparing", "handling", "panicking"}
    /\ pending[p] # <<>>
    /\ errorfCalls' = Errorf(reporter, errorfCalls, Head(pending[p]))
    /\ pending' = [pending EXCEPT ![p] = Tail(pending[p])]
    /\ UNCHANGED <<calledTimes, pc, req, num, got, rec, ret, fatalfCalls,
                   cleanups, asserted, assertLoaded>>
    /\ UNCHANGED <<policyVars, applyVars>>

\* one iteration of the range of compareHeader: the values of the key are
\* read from the map behind Input.Header as it is now
ServeHTTPCompareHeader(p) ==
    /\ pc[p] = "comparing"
    /\ pending[p] = <<>>
    /\ hdr[p].work # <<>>
    /\ Head(hdr[p].work).field = "Input"
    /\ pending' = [pending EXCEPT
          ![p] = prefixTestReporter_All(num[p],
                     compareHeader(req[p].Header, InputHeaderNow(p),
                                   <<Head(hdr[p].work).key>>))]
    /\ hdr' = [hdr EXCEPT ![p].work = Tail(hdr[p].work)]
    /\ UNCHANGED <<calledTimes, pc, req, num, got, rec, ret, errorfCalls,
                   fatalfCalls, cleanups, asserted, assertLoaded>>
    /\ UNCHANGED <<policyVars, callsVars, matchVars, writeVars, mockVars,
                   headerMaps, ctApplied, ctHeader, ctResult, base64Vars>>

\* one iteration of the range of writeResponseHeader, for _, value := range
\* header.Values(key): the values of the key are read once, before any of
\* them is added
ServeHTTPValues(p) ==
    /\ pc[p] = "comparing"
    /\ pending[p] = <<>>
    /\ ~hdr[p].reading
    /\ hdr[p].values = <<>>
    /\ hdr[p].work # <<>>
    /\ Head(hdr[p].work).field = "Response"
    /\ hdr' = [hdr EXCEPT
          ![p] = [work |-> Tail(hdr[p].work), key |-> Head(hdr[p].work).key,
                  values |-> HeaderValues(ResponseHeaderNow(p),
                                          Head(hdr[p].work).key),
                  loaded |-> <<>>, reading |-> FALSE]]
    /\ UNCHANGED <<calledTimes, pc, req, num, got, pending, rec, ret,
                   errorfCalls, fatalfCalls, cleanups, asserted, assertLoaded>>
    /\ UNCHANGED <<policyVars, callsVars, matchVars, writeVars, mockVars,
                   headerMaps, ctApplied, ctHeader, ctResult, base64Vars>>

\* header.Add(key, value), its read: h[key] is loaded from the map
ServeHTTPAddLoad(p) ==
    /\ pc[p] = "comparing"
    /\ ~hdr[p].reading
    /\ hdr[p].values # <<>>
    /\ hdr' = [hdr EXCEPT
          ![p].loaded = HeaderValues(ResponseHeaderNow(p), hdr[p].key),
          ![p].reading = TRUE]
    /\ UNCHANGED <<calledTimes, pc, req, num, got, pending, rec, ret,
                   errorfCalls, fatalfCalls, cleanups, asserted, assertLoaded>>
    /\ UNCHANGED <<policyVars, callsVars, matchVars, writeVars, mockVars,
                   headerMaps, ctApplied, ctHeader, ctResult, base64Vars>>

\* header.Add(key, value), its write: the loaded values with the value
\* appended are stored in the map, whatever the map holds by now
ServeHTTPAddStore(p) ==
    /\ pc[p] = "comparing"
    /\ hdr[p].reading
    /\ calls' = StoreHeader(calls, headerMaps, CallIndexOf(p),
                            HeaderStore(ResponseHeaderNow(p), hdr[p].key,
                                        hdr[p].loaded, Head(hdr[p].values)))
    /\ hdr' = [hdr EXCEPT ![p].values = Tail(hdr[p].values),
                          ![p].loaded = <<>>,
                          ![p].reading = FALSE]
    /\ UNCHANGED <<kind, reporter, handleCall, calledTimes, pc, req, num, got,
                   pending, rec, ret, errorfCalls, fatalfCalls, cleanups,
                   asserted, assertLoaded>>
    /\ UNCHANGED <<callsVars, matchVars, writeVars, mockVars, headerMaps,
                   ctApplied, ctHeader, ctResult, base64Vars>>

\* the map that the next step of invocation q reads or writes, if any
NoMap == [field |-> "none", index |-> 0]
MapAccessed(q) ==
    IF pc[q] # "comparing" \/ pending[q] # <<>> THEN NoMap
    ELSE IF hdr[q].reading \/ hdr[q].values # <<>>
    THEN [field |-> "Response", index |-> CallIndexOf(q)]
    ELSE IF hdr[q].work # <<>>
    THEN [field |-> Head(hdr[q].work).field, index |-> CallIndexOf(q)]
    ELSE NoMap

\* fatal error: concurrent map writes (or: concurrent map read and map
\* write): invocation p is storing into a map while invocation q reads or
\* writes the same map, the runtime notices and ends the process
ConcurrentMapWrites(p, q) ==
    /\ p # q
    /\ pc[p] = "comparing"
    /\ hdr[p].reading
    /\ MapAccessed(q) # NoMap
    /\ \/ headerMaps = "shared"
       \/ MapAccessed(q) = MapAccessed(p)
    /\ pc' = [o \in Procs |-> "crashed"]
    /\ UNCHANGED <<calledTimes, req, num, got, pending, rec, ret, errorfCalls,
                   fatalfCalls, cleanups, asserted, assertLoaded>>
    /\ UNCHANGED <<policyVars, applyVars>>

\* the process has been ended by a fatal error of the runtime
Crashed == \E p \in Procs : pc[p] = "crashed"

\* the rest of writeResponse: w.WriteHeader(response.StatusCode), 200 for 0,
\* and writeResponseBody
ServeHTTPWrite(p) ==
    /\ pc[p] = "comparing"
    /\ pending[p] = <<>>
    /\ ~hdr[p].reading
    /\ hdr[p].values = <<>>
    /\ hdr[p].work = <<>>
    /\ LET head == writeResponseHeader(NewRecorder, got[p].call.Response, <<>>)
           body == writeResponseBody(head.w, got[p].call.Response.Body)
       IN  /\ rec' = [rec EXCEPT ![p] = body.w]
           /\ pending' = [pending EXCEPT
                             ![p] = prefixTestReporter_All(num[p], body.reports)]
           /\ pc' = [pc EXCEPT ![p] = IF body.panic # NoPanic THEN "panicking"
                                     ELSE "handling"]
    /\ hdr' = [hdr EXCEPT ![p] = NoRange]
    /\ UNCHANGED <<calledTimes, req, num, got, ret, errorfCalls, fatalfCalls,
                   cleanups, asserted, assertLoaded>>
    /\ UNCHANGED <<policyVars, callsVars, matchVars, writeVars, mockVars,
                   headerMaps, ctApplied, ctHeader, ctResult, base64Vars>>

\* if call.Delay > 0 { <-time.After(call.Delay) }
ServeHTTPDelay(p) ==
    /\ pc[p] = "handling"
    /\ pending[p] = <<>>
    /\ got[p].call.Delay > 0
    /\ pc' = [pc EXCEPT ![p] = "delay"]
    /\ UNCHANGED <<calledTimes, req, num, got, pending, rec, ret, errorfCalls,
                   fatalfCalls, cleanups, asserted, assertLoaded>>
    /\ UNCHANGED <<policyVars, applyVars>>

\* ServeHTTP returns: the client receives what was written
ServeHTTPReturn(p) ==
    /\ \/ pc[p] = "delay"
       \/ pc[p] = "handling" /\ pending[p] = <<>> /\ got[p].call.Delay = 0
       \/ pc[p] = "zero" /\ pending[p] = <<>>
    /\ ret' = [ret EXCEPT ![p] = Returned(ServerResult(rec[p]), TRUE, NilError)]
    /\ pc' = [pc EXCEPT ![p] = "returned"]
    /\ UNCHANGED <<calledTimes, req, num, got, pending, rec, errorfCalls,
                   fatalfCalls, cleanups, asserted, assertLoaded>>
    /\ UNCHANGED <<policyVars, applyVars>>

\* Body.Bytes() panicked inside ServeHTTP: the handler is unwound and the
\* server drops the connection
ServeHTTPPanic(p) ==
    /\ pc[p] = "panicking"
    /\ pending[p] = <<>>
    /\ ret' = [ret EXCEPT ![p] = ConnectionDropped]
    /\ pc' = [pc EXCEPT ![p] = "panicked"]
    /\ UNCHANGED <<calledTimes, req, num, got, pending, rec, errorfCalls,
                   fatalfCalls, cleanups, asserted, assertLoaded>>
    /\ UNCHANGED <<policyVars, applyVars>>

\* calledTimes := h.calledTimes.Load(), the first statement of the cleanup
handler_assertLoad ==
    /\ ~asserted
    /\ ~Crashed
    /\ cleanups = <<"assert">>
    /\ assertLoaded = -1
    /\ assertLoaded' = calledTimes
    /\ UNCHANGED <<calledTimes, pc, req, num, got, pending, rec, ret,
                   errorfCalls, fatalfCalls, cleanups, asserted>>
    /\ UNCHANGED <<policyVars, applyVars>>

\* func (h *handler) assert after the Load: if calledTimes !=
\* int64(len(h.calls)) { h.t.Errorf(...) }, and the cleanup returns
handler_assert ==
    /\ ~asserted
    /\ ~Crashed
    /\ assertLoaded # -1
    /\ errorfCalls' = IF assertLoaded # Len(calls)
                      THEN Errorf(reporter, errorfCalls, NotAllHandled)
                      ELSE errorfCalls
    /\ asserted' = TRUE
    /\ UNCHANGED <<calledTimes, pc, req, num, got, pending, rec, ret,
                   fatalfCalls, cleanups, assertLoaded>>
    /\ UNCHANGED <<policyVars, applyVars>>

NextServer ==
    \/ \E p \in Procs, r \in Requests : zeroCallsHandler_ServeHTTP(p, r)
    \/ \E p \in Procs, r \in Requests : ServeHTTPAdd(p, r)
    \/ \E p \in Procs : handler_Exceeded(p)
    \/ \E p \in Procs : ServeHTTPHandle(p)
    \/ \E p \in Procs : ServeHTTPErrorf(p)
    \/ \E p \in Procs : ServeHTTPCompareHeader(p)
    \/ \E p \in Procs : ServeHTTPValues(p)
    \/ \E p \in Procs : ServeHTTPAddLoad(p)
    \/ \E p \in Procs : ServeHTTPAddStore(p)
    \/ \E p, q \in Procs : ConcurrentMapWrites(p, q)
    \/ \E p \in Procs : ServeHTTPWrite(p)
    \/ \E p \in Procs : ServeHTTPDelay(p)
    \/ \E p \in Procs : ServeHTTPReturn(p)
    \/ \E p \in Procs : ServeHTTPPanic(p)
    \/ handler_assertLoad
    \/ handler_assert

SpecServer == InitServer /\ [][NextServer]_vars

SpecServerShared == InitServerShared /\ [][NextServer]_vars

\* a request without a query: both keys of QueryA are missing from it
ReqC ==
    MkRequest("POST", URL("/any/target", EmptyMap), BytesReader("Hello World!"),
              HeaderA)
ServerRequests == Requests \cup {ReqC}

\* the server receiving, besides the requests of the transport's model, the
\* request that fails two keys of one expectation
NextServerKeys ==
    \/ \E p \in Procs, r \in ServerRequests : zeroCallsHandler_ServeHTTP(p, r)
    \/ \E p \in Procs, r \in ServerRequests : ServeHTTPAdd(p, r)
    \/ \E p \in Procs : handler_Exceeded(p)
    \/ \E p \in Procs : ServeHTTPHandle(p)
    \/ \E p \in Procs : ServeHTTPErrorf(p)
    \/ \E p \in Procs : ServeHTTPCompareHeader(p)
    \/ \E p \in Procs : ServeHTTPValues(p)
    \/ \E p \in Procs : ServeHTTPAddLoad(p)
    \/ \E p \in Procs : ServeHTTPAddStore(p)
    \/ \E p, q \in Procs : ConcurrentMapWrites(p, q)
    \/ \E p \in Procs : ServeHTTPWrite(p)
    \/ \E p \in Procs : ServeHTTPDelay(p)
    \/ \E p \in Procs : ServeHTTPReturn(p)
    \/ \E p \in Procs : ServeHTTPPanic(p)
    \/ handler_assertLoad
    \/ handler_assert

SpecServerKeys == InitServer /\ [][NextServerKeys]_vars

(***************************************************************************)
(* Base64.Bytes of body.go, applied on its own.  Bytes are numbers 0..255; *)
(* base64.StdEncoding.Encode writes the encoding into dst from index 0 on, *)
(* in order, and a write past the end of dst is a run-time panic.          *)
(***************************************************************************)
MaxRaw == 3
RawByteValues == {0, 77, 97, 250, 255}
RawInputs == SeqsUpTo(RawByteValues, MaxRaw)

\* the alphabet of base64.StdEncoding: A-Z a-z 0-9 + /
StdEncoding_encode(i) ==
    IF i < 26 THEN 65 + i
    ELSE IF i < 52 THEN 97 + (i - 26)
    ELSE IF i < 62 THEN 48 + (i - 52)
    ELSE IF i = 62 THEN 43
    ELSE 47

\* the padding character '='
StdPadding == 61

\* the bytes Encode writes for src, in the order it writes them: four for
\* every three bytes of src, and four, padded, for a remainder of one or two
RECURSIVE StdEncoding_Encoded(_)
StdEncoding_Encoded(src) ==
    IF src = <<>> THEN <<>>
    ELSE IF Len(src) >= 3
    THEN LET val == src[1] * 65536 + src[2] * 256 + src[3]
         IN  <<StdEncoding_encode((val \div 262144) % 64),
               StdEncoding_encode((val \div 4096) % 64),
               StdEncoding_encode((val \div 64) % 64),
               StdEncoding_encode(val % 64)>>
             \o StdEncoding_Encoded(SubSeq(src, 4, Len(src)))
    ELSE IF Len(src) = 2
    THEN LET val == src[1] * 65536 + src[2] * 256
         IN  <<StdEncoding_encode((val \div 262144) % 64),
               StdEncoding_encode((val \div 4096) % 64),
               StdEncoding_encode((val \div 64) % 64),
               StdPadding>>
    ELSE LET val == src[1] * 65536
         IN  <<StdEncoding_encode((val \div 262144) % 64),
               StdEncoding_encode((val \div 4096) % 64),
               StdPadding, StdPadding>>

\* make([]byte, n)
MakeBytes(n) == [i \in 1..n |-> 0]

\* base64.StdEncoding.Encode(dst, src): dst with the written bytes, or the
\* panic of the first write at an index that dst does not have
StdEncoding_Encode(dst, src) ==
    LET written == StdEncoding_Encoded(src)
    IN  IF Len(written) > Len(dst)
        THEN [bytes |-> <<>>,
              panic |-> "runtime error: index out of range [" \o ToString(Len(dst))
                        \o "] with length " \o ToString(Len(dst))]
        ELSE [bytes |-> [i \in 1..Len(dst) |->
                            IF i <= Len(written) THEN written[i] ELSE dst[i]],
              panic |-> "none"]

\* func (j Base64) Bytes: dst := make([]byte, len(j.Raw)); Encode(dst, j.Raw)
Base64_Bytes(raw) == StdEncoding_Encode(MakeBytes(Len(raw)), raw)

ApplyBase64(raw) ==
    /\ b64Applied' = TRUE
    /\ b64Raw' = raw
    /\ b64Out' = Base64_Bytes(raw)
    /\ UNCHANGED <<policyVars, harnessVars, callsVars, matchVars, writeVars,
                   mockVars, headerVars>>

NextBase64 ==
    /\ ~b64Applied
    /\ \E raw \in RawInputs : ApplyBase64(raw)

SpecBase64 == InitMatch /\ [][NextBase64]_vars

(***************************************************************************)
(* The server with the reporter of its tests as the sink.  The             *)
(* testReporterMock of server_test.go holds no mutex: its Errorf is        *)
(* tm.errorfCalls = append(tm.errorfCalls, call), a read of the slice and  *)
(* a write of the slice with one more element, and the handlers of         *)
(* concurrent requests run in goroutines of their own.                     *)
(***************************************************************************)
\* the report that goroutine g is about to pass to Errorf, if any: g is an
\* invocation of a handler, or 0 for the cleanup that runs handler.assert
ErrorfAt(g) ==
    IF g = 0
    THEN IF ~asserted /\ ~Crashed /\ assertLoaded # -1 /\ assertLoaded # Len(calls)
         THEN <<NotAllHandled>> ELSE <<>>
    ELSE IF pc[g] \in {"zero", "comparing", "handling", "panicking"}
         THEN pending[g] ELSE <<>>

\* append(tm.errorfCalls, ...): the slice is read
testReporterMock_ErrorfRead(g) ==
    /\ ErrorfAt(g) # <<>>
    /\ ~appending[g].active
    /\ appending' = [appending EXCEPT ![g] = [active |-> TRUE, slice |-> errorfCalls]]
    /\ UNCHANGED <<policyVars, harnessVars, callsVars, matchVars, writeVars,
                   headerVars, base64Vars>>

\* tm.errorfCalls = ...: the slice that was read, with the call appended, is
\* stored; Errorf returns, to the handler or to assert, which returns
testReporterMock_ErrorfWrite(g) ==
    /\ appending[g].active
    /\ ErrorfAt(g) # <<>>
    /\ errorfCalls' = Append(appending[g].slice, Head(ErrorfAt(g)))
    /\ pending' = IF g = 0 THEN pending
                  ELSE [pending EXCEPT ![g] = Tail(pending[g])]
    /\ asserted' = IF g = 0 THEN TRUE ELSE asserted
    /\ appending' = [appending EXCEPT ![g] = NotAppending]
    /\ UNCHANGED <<calledTimes, pc, req, num, got, rec, ret, fatalfCalls,
                   cleanups, assertLoaded>>
    /\ UNCHANGED <<policyVars, callsVars, matchVars, writeVars, headerVars,
                   base64Vars>>

\* h.t.Fatalf("call count limit exceeded") with the reporter of the tests:
\* append(tm.fatalfCalls, ...), the slice is read
testReporterMock_FatalfRead(p) ==
    /\ kind = "NewServer"
    /\ pc[p] = "counted"
    /\ num[p] > Len(calls)
    /\ ~appending[p].active
    /\ appending' = [appending EXCEPT ![p] = [active |-> TRUE, slice |-> fatalfCalls]]
    /\ UNCHANGED <<policyVars, harnessVars, callsVars, matchVars, writeVars,
                   headerVars, base64Vars>>

\* tm.fatalfCalls = ...: the slice that was read, with the call appended, is
\* stored; Fatalf returns and the handler returns
testReporterMock_FatalfWrite(p) ==
    /\ pc[p] = "counted"
    /\ appending[p].active
    /\ fatalfCalls' = Append(appending[p].slice, LimitExceeded)
    /\ appending' = [appending EXCEPT ![p] = NotAppending]
    /\ ret' = [ret EXCEPT ![p] = Returned(ServerResult(NewRecorder), TRUE, NilError)]
    /\ pc' = [pc EXCEPT ![p] = "returned"]
    /\ UNCHANGED <<calledTimes, req, num, got, pending, rec, errorfCalls,
                   cleanups, asserted, assertLoaded>>
    /\ UNCHANGED <<policyVars, callsVars, matchVars, writeVars, headerVars,
                   base64Vars>>

\* handler.assert finding every call handled: nothing is reported
handler_assertDone ==
    /\ assertLoaded = Len(calls)
    /\ handler_assert

NextServerMock ==
    \/ \E p \in Procs, r \in ServerRequests : zeroCallsHandler_ServeHTTP(p, r)
    \/ \E p \in Procs, r \in ServerRequests : ServeHTTPAdd(p, r)
    \/ \E p \in Procs : testReporterMock_FatalfRead(p)
    \/ \E p \in Procs : testReporterMock_FatalfWrite(p)
    \/ \E p \in Procs : ServeHTTPHandle(p)
    \/ \E g \in 0..MaxRequests : testReporterMock_ErrorfRead(g)
    \/ \E g \in 0..MaxRequests : testReporterMock_ErrorfWrite(g)
    \/ \E p \in Procs : ServeHTTPCompareHeader(p)
    \/ \E p \in Procs : ServeHTTPValues(p)
    \/ \E p \in Procs : ServeHTTPAddLoad(p)
    \/ \E p \in Procs : ServeHTTPAddStore(p)
    \/ \E p, q \in Procs : ConcurrentMapWrites(p, q)
    \/ \E p \in Procs : ServeHTTPWrite(p)
    \/ \E p \in Procs : ServeHTTPDelay(p)
    \/ \E p \in Procs : ServeHTTPReturn(p)
    \/ \E p \in Procs : ServeHTTPPanic(p)
    \/ handler_assertLoad
    \/ handler_assertDone

SpecServerMock == InitServer /\ [][NextServerMock]_vars

(***************************************************************************)
(* Properties of the sequencing policies (checked under SpecCalls).        *)
(***************************************************************************)
\* C1: for a sequential policy over a list of length L and an invocation
\* number i >= 1, Call(i) is found and is the list element at index i-1 when
\* i <= L, and is not found when i > L.
C1_SequenceCallInOrder ==
    (kind = "sequence" /\ callArg >= 1) =>
        IF callArg <= Len(calls)
        THEN callResult.ok /\ callResult.call = calls[callArg]
        ELSE ~callResult.ok

\* the last element of a list of two different calls was looked up
C1_Witness ==
    /\ kind = "sequence"
    /\ Len(calls) = 2
    /\ calls[1] # calls[2]
    /\ callArg = 2
    /\ callResult = Found(calls[2])

\* C2 as stated: for a sequential policy of length L and n >= 0 completed
\* invocations, Done(n) is true if and only if n = L.
C2_DoneIffEqualsLength ==
    (kind = "sequence" /\ doneArg >= 0) =>
        (doneResult <=> doneArg = Len(calls))

\* C2 as amended: Done(n) is true if and only if n = L or the list is empty.
C2_DoneIffEqualsLengthOrEmpty ==
    (kind = "sequence" /\ doneArg >= 0) =>
        (doneResult <=> (doneArg = Len(calls) \/ Len(calls) = 0))

\* Done was asked about an empty list after an invocation, and about a
\* non-empty list: this is the empty case
C2_Witness ==
    /\ kind = "sequence"
    /\ Len(calls) = 0
    /\ doneArg = 1
    /\ doneResult

\* C3: for a static policy over a list of length L >= 1 and an invocation
\* number i >= 1, Call(i) is found and is the list element at index
\* (i-1) mod L; a single-element list always answers with its element and
\* invocation L+1 wraps around to the first element.
C3_StaticCallCycles ==
    (kind = "static" /\ Len(calls) >= 1 /\ callArg >= 1) =>
        /\ callResult.ok
        /\ callResult.call = calls[((callArg - 1) % Len(calls)) + 1]
        /\ Len(calls) = 1 => callResult.call = calls[1]
        /\ callArg = Len(calls) + 1 => callResult.call = calls[1]

\* invocation L+1 of a list of two different calls wrapped around
C3_Witness ==
    /\ kind = "static"
    /\ Len(calls) = 2
    /\ calls[1] # calls[2]
    /\ callArg = 3
    /\ callResult = Found(calls[1])

(***************************************************************************)
(* Properties of the client-side transport (checked under Spec).           *)
(***************************************************************************)
\* the invocations that have been counted
Started == {p \in Procs : pc[p] # "idle"}

\* how often a report occurs in a reporter's buffer
Count(buffer, report) == Cardinality({i \in 1..Len(buffer) : buffer[i] = report})

\* the message templates reported through the prefixed Errorf
Templates ==
    {"wrong r.Method, expected %s, actual %s",
     "wrong url.Path, expected %s, actual %s",
     "wrong url query values by key %s, expect [%s], actual [%s]",
     "read body from request, %s",
     "read input body, %s",
     "body not equal, expected %s actual %s",
     "wrong header values by key %s, expect [%s], actual [%s]",
     "get response body bytes, unexpected error: json: unsupported type: chan int"}

\* the report carries the prefix of invocation number n
PrefixedTemplates == [n \in 0..MaxRequests |-> {Prefix(n) \o f : f \in Templates}]
ReportOf(report, n) == report.format \in PrefixedTemplates[n]

\* C4: concurrent requests against one transport each obtain a distinct
\* invocation number: once N requests have been counted the numbers handed
\* out are exactly 1..N, none twice, none skipped, no increment lost.
C4_DistinctInvocationNumbers ==
    /\ calledTimes = Cardinality(Started)
    /\ {num[p] : p \in Started} = 1..calledTimes
    /\ \A p, q \in Started : p # q => num[p] # num[q]

\* two requests hold their numbers at the same time, neither having returned
C4_Witness ==
    /\ pc[1] = "counted"
    /\ pc[2] = "counted"
    /\ num[1] = 1
    /\ num[2] = 2

\* C5: when exactly L requests have gone into a transport with a sequential
\* policy of length L, each list element has been selected by exactly one
\* request, no request was reported as unexpected, and a teardown that runs
\* after them reports nothing.
C5_SequenceServedConcurrently ==
    (kind = "sequence" /\ Cardinality(Started) = Len(calls)) =>
        /\ \A i \in 1..Len(calls) :
              Cardinality({p \in Started : num[p] = i /\ got[p] = Found(calls[i])}) = 1
        /\ fatalfCalls = <<>>
        /\ (asserted /\ assertLoaded = Len(calls)) =>
              Count(errorfCalls, NotAllHandled) = 0

\* two requests were handled against a list of two calls at the same time
\* (their mismatch reports are interleaved) and teardown has run after them
C5_Witness ==
    /\ kind = "sequence"
    /\ calls = <<CallA, CallA>>
    /\ \A p \in {1, 2} : pc[p] = "returned"
    /\ asserted
    /\ assertLoaded = 2
    /\ Len(errorfCalls) = 4
    /\ ReportOf(errorfCalls[1], 1)
    /\ ReportOf(errorfCalls[2], 2)
    /\ ReportOf(errorfCalls[3], 1)
    /\ ReportOf(errorfCalls[4], 2)

\* C6: at teardown the summary error is reported exactly once, through
\* Errorf and never through Fatalf, if the policy's Done of the number of
\* requests observed by then is false, and not at all if it is true (nor
\* before teardown).
C6_TeardownSummary ==
    /\ [](/\ Count(fatalfCalls, NotAllHandled) = 0
          /\ Count(errorfCalls, NotAllHandled) =
                IF asserted /\ ~Calls_Done(kind, calls, assertLoaded) THEN 1 ELSE 0)
    /\ [][(assertLoaded = -1 /\ assertLoaded' # -1) =>
             assertLoaded' = Cardinality(Started)]_vars

\* teardown ran after one request of two expected and reported the summary
C6_Witness ==
    /\ kind = "sequence"
    /\ Len(calls) = 2
    /\ asserted
    /\ assertLoaded = 1
    /\ Count(errorfCalls, NotAllHandled) = 1

\* C7: a request for whose invocation number the policy has no call is
\* reported with the fatal "no expected calls left" exactly once, runs no
\* matcher check (no Errorf carries its number), returns the empty response
\* with a nil error, and has been counted.
C7_UnexpectedCall ==
    /\ \A p \in Started :
          ~Calls_Call(kind, calls, num[p]).ok =>
              /\ num[p] \in 1..calledTimes
              /\ pending[p] = <<>>
              /\ pc[p] \in {"counted", "returned"}
              /\ pc[p] = "returned" => ret[p] = Returned(EmptyResponse, TRUE, NilError)
              /\ \A i \in 1..Len(errorfCalls) : ~ReportOf(errorfCalls[i], num[p])
    /\ Len(fatalfCalls) =
          Cardinality({p \in Started : pc[p] = "returned"
                                       /\ ~Calls_Call(kind, calls, num[p]).ok})
    /\ \A i \in 1..Len(fatalfCalls) : fatalfCalls[i] = NoCallsLeft
    /\ calledTimes = Cardinality(Started)

\* the second request against a list of one call has returned
C7_Witness ==
    /\ kind = "sequence"
    /\ Len(calls) = 1
    /\ calledTimes = 2
    /\ pc[2] = "returned"
    /\ ~got[2].ok
    /\ fatalfCalls = <<NoCallsLeft>>

\* C8: for an empty sequential policy Done(0) is true and Call(i) is not
\* found for every i >= 1, so the transport reports nothing when no request
\* is made and reports the fatal "no expected calls left" for any request.
C8_EmptySequence ==
    (kind = "sequence" /\ calls = <<>>) =>
        /\ sequenceCalls_Done(calls, 0)
        /\ \A i \in 1..MaxTimes : ~sequenceCalls_Call(calls, i).ok
        /\ calledTimes = 0 => (errorfCalls = <<>> /\ fatalfCalls = <<>>)
        /\ \A p \in Started : ~got[p].ok
        /\ Count(fatalfCalls, NoCallsLeft) =
              Cardinality({p \in Started : pc[p] = "returned"})

\* a request against the empty sequence has returned
C8_Witness ==
    /\ kind = "sequence"
    /\ calls = <<>>
    /\ pc[1] = "returned"
    /\ fatalfCalls = <<NoCallsLeft>>
    /\ errorfCalls = <<>>

\* C9: for a static policy Done(n) is true for every n and every list
\* length, so a transport with a static policy never reports the teardown
\* summary error, whatever number of requests was made.
C9_StaticAlwaysDone ==
    kind = "static" =>
        /\ \A n \in 0..MaxTimes : staticCalls_Done(calls, n)
        /\ Count(errorfCalls, NotAllHandled) = 0
        /\ Count(fatalfCalls, NotAllHandled) = 0

\* teardown of a static policy of two calls ran after a single request
C9_Witness ==
    /\ kind = "static"
    /\ Len(calls) = 2
    /\ asserted
    /\ assertLoaded = 1

\* C10: an empty static policy never finds a call (and the lookup does not
\* divide by zero), every request against it is reported with the fatal
\* "no expected calls left", and teardown reports no summary error.
C10_EmptyStatic ==
    (kind = "static" /\ calls = <<>>) =>
        /\ \A i \in 1..MaxTimes : ~staticCalls_Call(calls, i).ok
        /\ \A p \in Started : ~got[p].ok
        /\ Count(fatalfCalls, NoCallsLeft) =
              Cardinality({p \in Started : pc[p] = "returned"})
        /\ errorfCalls = <<>>

\* a request against the empty static policy has returned and teardown ran
C10_Witness ==
    /\ kind = "static"
    /\ calls = <<>>
    /\ pc[1] = "returned"
    /\ fatalfCalls = <<NoCallsLeft>>
    /\ asserted
    /\ assertLoaded = 1

\* C11: when the call matched to a request has a DoError, RoundTrip returns
\* exactly that error and no response, runs no matcher check (no Errorf
\* carries the request's number, even if the request does not match the
\* Input), writes no response, for every concurrent caller, and the request
\* has consumed one invocation number.
C11_DoErrorReturned ==
    /\ \A p \in Started :
          LET l == Calls_Call(kind, calls, num[p])
          IN  (l.ok /\ l.call.DoError # NilError) =>
                  /\ num[p] \in 1..calledTimes
                  /\ pending[p] = <<>>
                  /\ rec[p] = NewRecorder
                  /\ pc[p] \in {"counted", "returned"}
                  /\ pc[p] = "returned" =>
                        ret[p] = Returned(EmptyResponse, FALSE, l.call.DoError)
                  /\ \A i \in 1..Len(errorfCalls) : ~ReportOf(errorfCalls[i], num[p])
    /\ calledTimes = Cardinality(Started)

\* two concurrent requests were matched to the call with the error; the
\* second, which does not match the call's Input, returned the error while
\* the first was still in flight
C11_Witness ==
    /\ kind = "static"
    /\ calls = <<CallErr>>
    /\ pc[1] = "counted"
    /\ pc[2] = "returned"
    /\ req[2] = ReqB
    /\ CompareInput(ReqB, CallErr.Input) # <<>>
    /\ ret[2] = Returned(EmptyResponse, FALSE, "some error")

(***************************************************************************)
(* Properties of the matcher (checked under SpecMatch).                    *)
(***************************************************************************)
MethodFormats == {"wrong r.Method, expected %s, actual %s"}
PathFormat == "wrong url.Path, expected %s, actual %s"
QueryFormat == "wrong url query values by key %s, expect [%s], actual [%s]"
BodyNotEqualFormat == "body not equal, expected %s actual %s"
BodyFormats ==
    {"read body from request, %s", "read input body, %s", BodyNotEqualFormat}
HeaderFormat == "wrong header values by key %s, expect [%s], actual [%s]"

\* the reports of a sequence whose format is one of the given ones, in order
WithFormat(reports, formats) == SelectSeq(reports, LAMBDA x : x.format \in formats)

\* how many reports of the given format name the key
CountKey(reports, format, key) ==
    Cardinality({i \in 1..Len(reports) :
                    reports[i].format = format /\ reports[i].args[1] = key})

\* C12: CompareInput attempts all four checks: what it reports for each of
\* method, URL, body and header is what that check reports on its own, and
\* nothing else is reported, whatever the other checks find.
C12_AllChecksAccumulate ==
    cmpApplied =>
        LET method == CompareMethod(cmpReq.Method, cmpInput.Method)
            url == CompareURL(cmpReq.URL, cmpInput.URL)
            body == CompareBody(cmpReq.Body, cmpInput.Body)
            header == CompareHeader(cmpReq.Header, cmpInput.Header)
        IN  /\ WithFormat(cmpReports, MethodFormats) = method
            /\ WithFormat(cmpReports, {PathFormat, QueryFormat}) = url
            /\ WithFormat(cmpReports, BodyFormats) = body
            /\ WithFormat(cmpReports, {HeaderFormat}) = header
            /\ Len(cmpReports) = Len(method) + Len(url) + Len(body) + Len(header)

\* a request that fails the method, path, query, body and header checks at
\* once: all of them are reported
C12_Witness ==
    /\ cmpApplied
    /\ CompareMethod(cmpReq.Method, cmpInput.Method) # <<>>
    /\ Len(CompareURL(cmpReq.URL, cmpInput.URL)) = 2
    /\ CompareBody(cmpReq.Body, cmpInput.Body) # <<>>
    /\ Len(CompareHeader(cmpReq.Header, cmpInput.Header)) = 2
    /\ Len(cmpReports) = 6

\* the place of a report in the order of the checks
Rank(report) ==
    CASE report.format \in MethodFormats -> 1
      [] report.format = PathFormat -> 2
      [] report.format = QueryFormat -> 3
      [] report.format \in BodyFormats -> 4
      [] report.format = HeaderFormat -> 5

\* C13: the mismatch reports of one request come in a fixed order: method,
\* then path, then query keys in ascending order, then body, then header
\* keys in ascending order.
C13_ReportOrder ==
    cmpApplied =>
        \A i, j \in 1..Len(cmpReports) :
            i < j =>
                /\ Rank(cmpReports[i]) <= Rank(cmpReports[j])
                /\ Rank(cmpReports[i]) = Rank(cmpReports[j]) =>
                      /\ Rank(cmpReports[i]) \in {3, 5}
                      /\ StringLess(cmpReports[i].args[1], cmpReports[j].args[1])

\* every kind of report at once, two query keys and two header keys among
\* them
C13_Witness ==
    /\ cmpApplied
    /\ Len(cmpReports) = 7
    /\ {Rank(cmpReports[i]) : i \in 1..7} = 1..5
    /\ Len(WithFormat(cmpReports, {QueryFormat})) = 2
    /\ Len(WithFormat(cmpReports, {HeaderFormat})) = 2

\* C14: with an expected URL, exactly one mismatch is reported for each
\* expected query key whose ordered value list differs from the request's
\* list for the key, none for an expected key whose lists are equal, none
\* for a key only the request has; without an expected URL neither path nor
\* query is reported.
C14_QueryCheck ==
    cmpApplied =>
        LET inputQuery == cmpInput.URL.Query
            requestQuery == cmpReq.URL.Query
        IN  IF cmpInput.URL.isNil
            THEN WithFormat(cmpReports, {PathFormat, QueryFormat}) = <<>>
            ELSE \A key \in DOMAIN inputQuery \cup DOMAIN requestQuery :
                    CountKey(cmpReports, QueryFormat, key) =
                        IF /\ key \in DOMAIN inputQuery
                           /\ inputQuery[key] # MapGet(requestQuery, key)
                        THEN 1 ELSE 0

\* the request has the values of one expected key in another order and
\* lacks the other expected key: both are reported
C14_Witness ==
    /\ cmpApplied
    /\ ~cmpInput.URL.isNil
    /\ cmpInput.URL.Query = QueryAB
    /\ cmpReq.URL.Query = ("key" :> <<"b", "a">>)
    /\ CountKey(cmpReports, QueryFormat, "key") = 1
    /\ CountKey(cmpReports, QueryFormat, "name") = 1

\* C15 as stated: exactly one mismatch is reported for each expected header
\* key whose ordered value list differs from the request's value list for
\* the key, none when the lists are equal, none for a key only the request
\* has.
C15_HeaderCheck ==
    cmpApplied =>
        \A key \in DOMAIN cmpInput.Header \cup DOMAIN cmpReq.Header :
            CountKey(cmpReports, HeaderFormat, key) =
                IF /\ key \in DOMAIN cmpInput.Header
                   /\ cmpInput.Header[key] # HeaderValues(cmpReq.Header, key)
                THEN 1 ELSE 0

\* the expected and the observed body bytes, an absent body being empty
ExpectedBytes(body) == IF body.kind = "nil" THEN "" ELSE BodyBytes(body).bytes
ObservedBytes(reader) == IF reader.kind = "nil" THEN "" ELSE reader.data

\* C16: a request without a body has an empty body, an Input without a Body
\* expects an empty body, and "body not equal" is reported if and only if
\* the expected and the observed bytes differ (both being available).
C16_BodyCheck ==
    (/\ cmpApplied
     /\ cmpReq.Body.kind # "error"
     /\ BodyBytes(cmpInput.Body).err = NilError) =>
        Len(WithFormat(cmpReports, BodyFormats)) =
            IF ExpectedBytes(cmpInput.Body) # ObservedBytes(cmpReq.Body) THEN 1 ELSE 0

\* an Input without a Body met a request with a body: reported
C16_Witness ==
    /\ cmpApplied
    /\ cmpInput.Body = NilBody
    /\ cmpReq.Body = BytesReader("Hello World!")
    /\ Len(WithFormat(cmpReports, {BodyNotEqualFormat})) = 1

(***************************************************************************)
(* Properties of the reports and the response of the transport (checked    *)
(* under Spec) and of the response writer (checked under SpecWrite).       *)
(***************************************************************************)
\* the entries of the Errorf buffer that carry the prefix of number n
EmittedOf(n) == SelectSeq(errorfCalls, LAMBDA e : ReportOf(e, n))

\* C17: the reports of a request carry the number assigned to that request
\* and are the mismatches of the request against the call the policy
\* returns for that number: what has been emitted under a number, followed
\* by what the request has yet to emit, is that list; a request that is not
\* handled has nothing under its number, and every prefixed entry carries
\* the number of a started request.
C17_ReportsCarryOwnNumber ==
    /\ \A p \in Started :
          LET l == Calls_Call(kind, calls, num[p])
          IN  IF /\ handleCall = "compare"
                 /\ l.ok /\ l.call.DoError = NilError /\ pc[p] # "counted"
              THEN EmittedOf(num[p]) \o pending[p] =
                      PrefixedAll(num[p],
                          HandleCallCompareInput(NewRecorder, req[p], l.call).reports)
              ELSE EmittedOf(num[p]) = <<>> /\ pending[p] = <<>>
    /\ \A i \in 1..Len(errorfCalls) :
          \/ errorfCalls[i] = NotAllHandled
          \/ \E p \in Started : ReportOf(errorfCalls[i], num[p])

\* two mismatching requests are handled at once: the second one reported
\* first, the first one is still reporting
C17_Witness ==
    /\ kind = "static"
    /\ calls = <<CallA>>
    /\ req[1] = ReqB /\ req[2] = ReqB
    /\ num[1] = 1 /\ num[2] = 2
    /\ Len(errorfCalls) = 3
    /\ ReportOf(errorfCalls[1], 2)
    /\ ReportOf(errorfCalls[2], 1)
    /\ ReportOf(errorfCalls[3], 2)
    /\ pc[1] = "handling"
    /\ Len(pending[1]) = 1

\* the canonical messages of the harness
Canonical == Templates \cup {NoCallsLeft.format, NotAllHandled.format}

\* the message is a canonical one behind the prefix of an invocation number
HasCallPrefix(report) ==
    \E n \in 1..MaxRequests, f \in Canonical : report.format = Prefix(n) \o f

\* C18 as stated: every message emitted through the harness, the fatal "no
\* expected calls left" and the teardown error included, is prefixed with
\* "<N> call, ".
C18_AllPrefixed ==
    /\ \A i \in 1..Len(errorfCalls) : HasCallPrefix(errorfCalls[i])
    /\ \A i \in 1..Len(fatalfCalls) : HasCallPrefix(fatalfCalls[i])

\* C18 (amended): the errors reported while a request is handled are
\* prefixed with the number of a counted invocation; the fatal "no expected
\* calls left" and the teardown error are emitted as they are, without a
\* prefix.
C18_OnlyHandlingPrefixed ==
    /\ \A i \in 1..Len(errorfCalls) :
          \/ errorfCalls[i] = NotAllHandled
          \/ \E n \in 1..calledTimes : ReportOf(errorfCalls[i], n)
    /\ \A i \in 1..Len(fatalfCalls) : fatalfCalls[i] = NoCallsLeft

\* prefixed mismatches, the fatal and the teardown error in one run
C18_Witness ==
    /\ kind = "sequence"
    /\ calls = <<CallA>>
    /\ req[1] = ReqB
    /\ asserted
    /\ fatalfCalls = <<NoCallsLeft>>
    /\ Len(errorfCalls) = 3
    /\ ReportOf(errorfCalls[1], 1)
    /\ ReportOf(errorfCalls[2], 1)
    /\ errorfCalls[3] = NotAllHandled

\* C19: the response returned for a matched call without DoError has
\* status 200 when Response.StatusCode is 0 and Response.StatusCode
\* otherwise, and its body is the bytes of Response.Body, empty when the
\* Body is absent.
C19_StatusAndBody ==
    \A p \in Started :
        LET l == Calls_Call(kind, calls, num[p])
        IN  (/\ handleCall = "compare"
             /\ pc[p] = "returned" /\ l.ok /\ l.call.DoError = NilError) =>
                /\ ret[p].hasResp
                /\ ret[p].err = NilError
                /\ ret[p].resp.StatusCode =
                      IF l.call.Response.StatusCode = 0 THEN 200
                      ELSE l.call.Response.StatusCode
                /\ BodyBytes(l.call.Response.Body).err = NilError =>
                      ret[p].resp.Body = ExpectedBytes(l.call.Response.Body)

\* one response with a status and a body of its own, one with neither
C19_Witness ==
    /\ kind = "sequence"
    /\ calls = <<CallA, CallB>>
    /\ pc[1] = "returned" /\ pc[2] = "returned"
    /\ ret[1].resp.StatusCode = 404 /\ ret[1].resp.Body = "Not Found"
    /\ CallB.Response.StatusCode = 0 /\ CallB.Response.Body = NilBody
    /\ ret[2].resp.StatusCode = 200 /\ ret[2].resp.Body = ""

\* the values occur in the list next to each other, in their order
OccursIn(values, list) ==
    \E off \in 0..(Len(list) - Len(values)) :
        \A i \in 1..Len(values) : list[off + i] = values[i]

\* C20 as stated: every entry of Response.Header, the key with each of its
\* values in the values' order, is on the response (of a writer that keeps
\* the header it is given).
C20_HeaderCopied ==
    (wrApplied /\ wrOut.w.keeps) =>
        \A key \in DOMAIN wrResponse.Header :
            OccursIn(wrResponse.Header[key],
                     HeaderValues(RecorderResult(wrOut.w).Header, key))

(***************************************************************************)
(* Properties of the pass-through transport, of the transport after a      *)
(* rejected request and of the transport when a body cannot be encoded     *)
(* (checked under Spec).                                                   *)
(***************************************************************************)
\* C21: the transport of NewHandlerTransport forwards every request to the
\* wrapped handler and returns what the handler wrote; it finds a call for
\* every request, reports nothing, and has no teardown check registered.
C21_PassThrough ==
    handleCall = "handler" =>
        /\ errorfCalls = <<>>
        /\ fatalfCalls = <<>>
        /\ cleanups = <<>>
        /\ ~asserted
        /\ calledTimes = Cardinality(Started)
        /\ \A p \in Started :
              /\ got[p].ok
              /\ got[p].call.DoError = NilError
              /\ pending[p] = <<>>
              /\ pc[p] \in {"counted", "handling", "returned"}
              /\ pc[p] # "counted" => rec[p] = ServeHTTP(NewRecorder, req[p])
              /\ pc[p] = "returned" =>
                    ret[p] = Returned(RecorderResult(ServeHTTP(NewRecorder, req[p])),
                                      TRUE, NilError)

\* two requests were forwarded and answered by the handler
C21_Witness ==
    /\ handleCall = "handler"
    /\ req[1] = ReqA /\ req[2] = ReqB
    /\ pc[1] = "returned" /\ pc[2] = "returned"
    /\ ret[2].resp.StatusCode = 202
    /\ ret[2].resp.Body = "Hello World!"

\* an earlier request of the same transport has been rejected
AfterRejected(q) == \E p \in Started : num[p] < num[q] /\ ~got[p].ok

\* the numbers beyond the end of the list whose requests have gone through
\* their rejection: counted, and no longer waiting to report it
RejectedNumbers ==
    {n \in (Len(calls) + 1)..calledTimes :
        \A q \in Started : num[q] = n => pc[q] # "counted"}

\* C23: on a sequential policy, with callers that go on sending requests
\* after one was rejected: a request numbered after a rejected one has been
\* counted once, is rejected as well (it is never answered with a list
\* element, and nothing is checked or written for it), is free to report and
\* return, and returns the empty response with a nil error; the fatal
\* buffer holds one "no expected calls left" for every request numbered
\* beyond the list that has gone through its rejection, and nothing else;
\* and every request that enters increments the counter by one and takes
\* the new value as its number.
C23_KeepsRejecting ==
    /\ [](kind = "sequence" =>
            /\ \A q \in Started :
                  /\ num[q] \in 1..calledTimes
                  /\ \A o \in Started : num[o] = num[q] => o = q
                  /\ AfterRejected(q) =>
                        /\ ~got[q].ok
                        /\ pending[q] = <<>>
                        /\ rec[q] = NewRecorder
                        /\ pc[q] \in {"counted", "returned"}
                        /\ pc[q] = "counted" => ENABLED RoundTripNoCall(q)
                        /\ pc[q] = "returned" =>
                              ret[q] = Returned(EmptyResponse, TRUE, NilError)
            /\ fatalfCalls =
                  [i \in 1..Cardinality(RejectedNumbers) |-> NoCallsLeft])
    /\ [][\A q \in Procs :
             (pc[q] = "idle" /\ pc'[q] # "idle") =>
                 /\ calledTimes' = calledTimes + 1
                 /\ num'[q] = calledTimes'
                 /\ pc'[q] = "counted"]_vars

\* the one call of the list was answered, the next request was rejected and
\* a third request, sent after it, was rejected as well
C23_Witness ==
    /\ kind = "sequence"
    /\ Len(calls) = 1
    /\ calledTimes = 3
    /\ num[1] = 2 /\ num[2] = 3
    /\ AfterRejected(2)
    /\ pc[1] = "returned" /\ pc[2] = "returned"
    /\ ret[2] = Returned(EmptyResponse, TRUE, NilError)
    /\ fatalfCalls = <<NoCallsLeft, NoCallsLeft>>

\* every Errorf of the invocation, made or still to make, in order
AllReports(p) == EmittedOf(num[p]) \o pending[p]

\* the call of invocation p is handled by HandleCallCompareInput
Handled(p) ==
    /\ handleCall = "compare"
    /\ pc[p] \notin {"idle", "counted"}
    /\ got[p].ok
    /\ got[p].call.DoError = NilError

\* C24: when the expected body cannot be encoded the body check reports one
\* "read input body" error and no "body not equal", the header check is
\* still made, and the response of the call is written and returned with a
\* nil error.
C24_InputBodyError ==
    \A p \in Started :
        LET call == Calls_Call(kind, calls, num[p]).call
            n == num[p]
            cause == BodyBytes(call.Input.Body).err
        IN  (Handled(p) /\ cause # NilError /\ ReadAll(req[p].Body).err = NilError) =>
                /\ WithFormat(AllReports(p), {Prefix(n) \o f : f \in BodyFormats}) =
                      <<Report(Prefix(n) \o "read input body, %s", <<cause>>)>>
                /\ WithFormat(AllReports(p), {Prefix(n) \o HeaderFormat}) =
                      PrefixedAll(n, CompareHeader(req[p].Header, call.Input.Header))
                /\ rec[p] = WriteResponse(NewRecorder, call.Response).w
                /\ rec[p].wroteHeader
                /\ pc[p] = "returned" =>
                      ret[p] = Returned(RecorderResult(rec[p]), TRUE, NilError)

\* the expected body could not be encoded, the header mismatch of the same
\* request was reported after it, and the response was returned
C24_Witness ==
    /\ calls = <<CallJ>>
    /\ req[1] = ReqB
    /\ pc[1] = "returned"
    /\ errorfCalls =
          <<Report("1 call, read input body, %s", <<"json: unsupported type: chan int">>),
            Report("1 call, " \o HeaderFormat, <<"X-A", "Hello", "">>)>>
    /\ ret[1] = Returned([StatusCode |-> 404, Header |-> HeaderA, Body |-> "Not Found"],
                         TRUE, NilError)

\* C25: when the response body cannot be encoded, or when writing it to the
\* response writer fails, HandleCallCompareInput reports one error carrying
\* the cause's message, after the reports of the matcher and through Errorf;
\* a writer that keeps what it is given holds the status and the headers by
\* then and no body, and the writer of the tests, which keeps nothing, is
\* left as it was.  Inside the transport, where the writer is a recorder and
\* only the encoding can fail, RoundTrip returns that response with a nil
\* error.
C25_ResponseBodyError ==
    /\ \A p \in Started :
          LET call == Calls_Call(kind, calls, num[p]).call
              n == num[p]
              cause == BodyBytes(call.Response.Body).err
              message == "get response body bytes, unexpected error: " \o cause
          IN  (Handled(p) /\ cause # NilError) =>
                  /\ AllReports(p) =
                        PrefixedAll(n, CompareInput(req[p], call.Input))
                        \o <<Report(Prefix(n) \o message, <<>>)>>
                  /\ Count(fatalfCalls, Report(message, <<>>)) = 0
                  /\ rec[p].wroteHeader
                  /\ rec[p].Code = call.Response.StatusCode
                  /\ rec[p].Header = call.Response.Header
                  /\ rec[p].Body = ""
                  /\ pc[p] = "returned" =>
                        ret[p] = Returned(RecorderResult(rec[p]), TRUE, NilError)
    /\ hcApplied =>
          LET call == hcArgs.call
              encoding == BodyBytes(call.Response.Body).err
              writing == hcArgs.w.writeErr
              message == IF encoding # NilError
                         THEN "get response body bytes, unexpected error: " \o encoding
                         ELSE "write response body, unexpected error: " \o writing
          IN  IF encoding # NilError \/ writing # NilError
              THEN /\ hcOut.reports =
                         CompareInput(hcArgs.r, call.Input) \o <<Report(message, <<>>)>>
                   /\ IF hcArgs.w.keeps
                      THEN /\ hcOut.w.wroteHeader
                           /\ hcOut.w.Code = IF call.Response.StatusCode = 0 THEN 200
                                             ELSE call.Response.StatusCode
                           /\ hcOut.w.Header = call.Response.Header
                           /\ hcOut.w.Body = ""
                      ELSE hcOut.w = hcArgs.w
              ELSE hcOut.reports = CompareInput(hcArgs.r, call.Input)

\* the response body could not be encoded inside the transport: the error
\* was reported and the response was returned with its status and headers;
\* and HandleCallCompareInput was applied to a writer whose Write fails, as
\* Test_HandleCallCompareInput_FailedWriteToResponseWriter does: the failure
\* of the write was reported after the method mismatch
C25_Witness ==
    /\ calls = <<CallK>>
    /\ req[1] = ReqB
    /\ pc[1] = "returned"
    /\ errorfCalls =
          <<Report("1 call, get response body bytes, unexpected error: json: unsupported type: chan int",
                   <<>>)>>
    /\ ret[1] = Returned([StatusCode |-> 404, Header |-> HeaderA, Body |-> ""],
                         TRUE, NilError)
    /\ hcApplied
    /\ hcArgs = [w |-> errorWriteResponseRecorder("short write"), r |-> ReqB,
                 call |-> CallW]
    /\ Len(hcOut.reports) = 2
    /\ hcOut.reports[2] =
          Report("write response body, unexpected error: short write", <<>>)
    /\ hcOut.w = errorWriteResponseRecorder("short write")

\* C26: with a sequential policy the teardown summary is reported (once,
\* at teardown) exactly when the list is not empty and the number of
\* requests made by then is not its length, be it smaller or greater; the
\* requests beyond the length have their fatal reports as well.
C26_SequenceSummary ==
    kind = "sequence" =>
        /\ Count(errorfCalls, NotAllHandled) =
              IF asserted /\ calls # <<>> /\ assertLoaded # Len(calls) THEN 1 ELSE 0
        /\ Len(fatalfCalls) =
              Cardinality({p \in Started : pc[p] = "returned" /\ num[p] > Len(calls)})

\* more requests than the list has calls: a fatal report and the summary
C26_Witness ==
    /\ kind = "sequence"
    /\ calls = <<CallA>>
    /\ req[1] = ReqA
    /\ asserted
    /\ assertLoaded = 2
    /\ fatalfCalls = <<NoCallsLeft>>
    /\ errorfCalls = <<NotAllHandled>>

(***************************************************************************)
(* Properties of the server-side handlers.                                 *)
(***************************************************************************)
\* C27 as stated: for every invocation number i >= 1 and every list that is
\* not empty, the server-side cyclic handler selects the call the static
\* policy selects, the element at index (i - 1) mod L.
C27_StaticHandlerAsStaticCalls ==
    nextArg >= 1 =>
        /\ staticCalls_Call(calls, nextArg).ok
        /\ nextResult = staticCalls_Call(calls, nextArg).call
        /\ nextResult = calls[((nextArg - 1) % Len(calls)) + 1]

\* the message templates reported through prefixTestReporter.Errorf
ServerTemplates ==
    {"wrong url.Path, expected %s, actual %s",
     "wrong url query values by key %s, expect %v, actual %v",
     "read body from request, %s",
     "body not equal,\nexpected %s\nactual %s",
     "wrong header values by key %s, expect %v, actual %v",
     "write response bytes, %s"}

\* the entries of the Errorf buffer that carry the prefix of number n
PrefixedServerTemplates ==
    [n \in 0..MaxRequests |-> {Prefix(n) \o f : f \in ServerTemplates}]
ServerEmittedOf(n) ==
    SelectSeq(errorfCalls, LAMBDA e : e.format \in PrefixedServerTemplates[n])

\* the range of compareHeader of invocation p has ended
CompareDone(p) ==
    /\ pc[p] \notin {"counted", "comparing"}
       \/ \A i \in 1..Len(hdr[p].work) : hdr[p].work[i].field = "Response"

\* the sequence a is the beginning of the sequence b
IsPrefix(a, b) == Len(a) <= Len(b) /\ a = SubSeq(b, 1, Len(a))

\* C22 as stated, for the JSON body of body.go: obtaining its bytes never
\* panics, so no request handled by a server ends in a panic of Bytes.
C22_JSONNeverPanics ==
    \A p \in Procs : pc[p] \notin {"panicking", "panicked"}

\* C28 as stated: for a list that is not empty the handler of NewServer does
\* what the transport does over SequenceCalls: every request is counted
\* once; a request for which sequenceCalls.Call finds a call is checked
\* against that call and answered with it, its status, its body and every
\* entry of its Response.Header, and the call is the one the list was built
\* with; a request for which it finds none gets one fatal report, nothing
\* checked and nothing written; teardown reports the summary exactly when
\* sequenceCalls.Done is false, that is when the number of requests is not
\* the length.
C28_ServerAsSequenceCalls ==
    /\ []((kind = "NewServer" /\ calls # <<>>) =>
            /\ calledTimes = Cardinality(Started)
            /\ {num[p] : p \in Started} = 1..calledTimes
            /\ \A p \in Started :
                  LET client == sequenceCalls_Call(calls, num[p])
                  IN  IF client.ok
                      THEN /\ num[p] <= Len(calls)
                           /\ pc[p] \notin {"panicking", "panicked"}
                           /\ pc[p] # "counted" =>
                                 /\ got[p].ok
                                 /\ got[p].call.Input = client.call.Input
                                 /\ got[p].call.Response.StatusCode =
                                       client.call.Response.StatusCode
                                 /\ got[p].call.Response.Body = client.call.Response.Body
                                 /\ \E queryOrder \in Orders(DOMAIN client.call.Input.URL.Query),
                                       headerOrder \in Orders(DOMAIN client.call.Input.Header) :
                                       LET made == ServerEmittedOf(num[p]) \o pending[p]
                                           all == prefixTestReporter_All(num[p],
                                                     compareInput(req[p], client.call.Input,
                                                         queryOrder, headerOrder).reports)
                                       IN  IF CompareDone(p) THEN made = all
                                           ELSE IsPrefix(made, all)
                           /\ pc[p] = "returned" =>
                                 /\ ret[p].hasResp
                                 /\ ret[p].resp.StatusCode =
                                       IF client.call.Response.StatusCode = 0 THEN 200
                                       ELSE client.call.Response.StatusCode
                                 /\ ret[p].resp.Body = ExpectedBytes(client.call.Response.Body)
                                 /\ \A key \in DOMAIN got[p].call.Response.Header :
                                       OccursIn(got[p].call.Response.Header[key],
                                                HeaderValues(ret[p].resp.Header, key))
                      ELSE /\ num[p] > Len(calls)
                           /\ pc[p] \in {"counted", "returned"}
                           /\ pending[p] = <<>>
                           /\ rec[p] = NewRecorder
                           /\ ServerEmittedOf(num[p]) = <<>>
            /\ fatalfCalls =
                  [i \in 1..Cardinality({p \in Started : pc[p] = "returned"
                                                         /\ num[p] > Len(calls)})
                      |-> LimitExceeded]
            /\ Count(errorfCalls, NotAllHandled) =
                  IF asserted /\ ~sequenceCalls_Done(calls, assertLoaded) THEN 1 ELSE 0
            /\ asserted =>
                  (sequenceCalls_Done(calls, assertLoaded) <=> assertLoaded = Len(calls)))
    /\ [][(kind = "NewServer" /\ calls # <<>>) => calls' = calls]_vars

\* C29: a server without calls reports "unexpected call to zero calls
\* handler" through Errorf once for each request it receives, nothing
\* through Fatalf, and has no teardown check, so no summary is reported
\* whether requests were made or not.
C29_ZeroCallsServer ==
    calls = <<>> =>
        /\ errorfCalls =
              [i \in 1..Cardinality({p \in Started : pending[p] = <<>>}) |->
                  UnexpectedZeroCall]
        /\ fatalfCalls = <<>>
        /\ cleanups = <<>>
        /\ ~asserted
        /\ \A p \in Started :
              /\ pc[p] \in {"zero", "returned"}
              /\ pending[p] \in {<<>>, <<UnexpectedZeroCall>>}
              /\ pc[p] = "returned" =>
                    /\ pending[p] = <<>>
                    /\ ret[p] = Returned(ServerResult(NewRecorder), TRUE, NilError)

\* two requests to a server built by NewServer without calls
C29_Witness ==
    /\ kind = "NewServer"
    /\ calls = <<>>
    /\ Started = {1, 2}
    /\ pc[1] = "returned" /\ pc[2] = "returned"
    /\ errorfCalls = <<UnexpectedZeroCall, UnexpectedZeroCall>>

\* C30 as stated: every entry of the matched call's Response.Header is on
\* the response the server sends, and the status is 200 when
\* Response.StatusCode is 0.
C30_ServerResponseHeader ==
    \A p \in Started :
        (pc[p] = "returned" /\ got[p].ok) =>
            /\ \A key \in DOMAIN got[p].call.Response.Header :
                  OccursIn(got[p].call.Response.Header[key],
                           HeaderValues(ret[p].resp.Header, key))
            /\ ret[p].resp.StatusCode =
                  IF got[p].call.Response.StatusCode = 0 THEN 200
                  ELSE got[p].call.Response.StatusCode

\* C31 as stated: no step of a harness changes a configured call; the list
\* the policy or the server was built from stays what it was at
\* construction, the value lists of the headers included.
C31_CallsNeverModified == [][calls' = calls]_vars

\* C32 as stated: what the server reports for one request is one fixed
\* sequence, the path first, then the query keys in ascending order, then the
\* body, then the header keys in ascending order.
C32_ServerReportOrder ==
    \A p \in Started :
        (got[p].ok /\ pc[p] \in {"handling", "delay", "returned"}) =>
            LET input == got[p].call.Input
                sorted == server_handleCall(NewRecorder, req[p], got[p].call,
                                            SortedKeys(DOMAIN input.URL.Query),
                                            SortedKeys(DOMAIN input.Header),
                                            SortedKeys(DOMAIN got[p].call.Response.Header))
            IN  ServerEmittedOf(num[p]) \o pending[p] =
                    prefixTestReporter_All(num[p], sorted.reports)

\* C33 as stated: once the teardown check has run the instance is terminal;
\* a request that had not entered before is not processed: the counter is
\* not incremented, and the request is neither matched nor answered.
C33_TerminalAfterTeardown ==
    [][asserted =>
          /\ calledTimes' = calledTimes
          /\ \A p \in Procs :
                pc[p] = "idle" =>
                    /\ pc'[p] = "idle"
                    /\ rec'[p] = rec[p]
                    /\ ret'[p] = ret[p]]_vars

\* the next step of invocation q can be taken; CanHandle(q) is the guard of
\* RoundTripHandle(q) (CanHandleIsEnabled)
CanStep(q) ==
    \/ pc[q] = "idle" /\ (\E o \in Procs : o < q /\ pc[o] = "idle")
    \/ pc[q] = "idle" /\ \A r \in Requests : ENABLED RoundTripAdd(q, r)
    \/ pc[q] = "counted" /\ \/ ENABLED RoundTripNoCall(q)
                            \/ ENABLED RoundTripDoError(q)
                            \/ CanHandle(q)
    \/ pc[q] = "handling" /\ \/ ENABLED RoundTripErrorf(q)
                             \/ ENABLED RoundTripDelay(q)
                             \/ ENABLED RoundTripReturn(q)
    \/ pc[q] = "delay" /\ ENABLED RoundTripReturn(q)
    \/ pc[q] = "returned"

\* C34: an invocation pauses for the Delay of its call after all its reports
\* are made and its response is written and before it returns, and while it
\* pauses every other invocation can take its next step: obtain its number,
\* be matched, report, return.
C34_DelayHoldsNothing ==
    \A p \in Procs :
        pc[p] = "delay" =>
            LET h == HandleCallCompareInput(NewRecorder, req[p], got[p].call)
            IN  /\ got[p].ok
                /\ got[p].call.Delay > 0
                /\ pending[p] = <<>>
                /\ EmittedOf(num[p]) = PrefixedAll(num[p], h.reports)
                /\ rec[p] = h.w
                /\ rec[p].wroteHeader
                /\ ~ret[p].returned
                /\ \A q \in Procs \ {p} : CanStep(q)

\* the first invocation pauses after its report, the second one has obtained
\* its number meanwhile or before and is being matched
C34_Witness ==
    /\ pc[1] = "delay"
    /\ req[1] = ReqA
    /\ got[1].call = CallB
    /\ Len(EmittedOf(1)) = 1
    /\ pc[2] = "handling"
    /\ num[2] = 2

\* the invocations that are inside RoundTrip
InFlight == {p \in Procs : pc[p] \in {"counted", "handling", "delay"}}

\* the guard CanHandle is what ENABLED RoundTripHandle evaluates to
CanHandleIsEnabled == \A p \in Procs : CanHandle(p) <=> ENABLED RoundTripHandle(p)

\* C35: every request that has entered RoundTrip eventually returns to its
\* caller, with a response, the empty response or the injected error,
\* whatever the policy and the interleaving, the teardown having run or not:
\* whenever requests are inside RoundTrip, a state follows in which none is,
\* each of them having returned (an invocation never goes back).
C35_EveryRequestReturns ==
    (InFlight # {}) ~>
        (\A p \in Procs : \/ pc[p] = "idle"
                          \/ pc[p] = "returned" /\ ret[p].returned)

\* two requests against a sequence of the one call with a Delay: the first
\* returned its response after the pause, the second the empty response
C35_Witness ==
    /\ kind = "sequence"
    /\ calls = <<CallB>>
    /\ ~asserted
    /\ pc[1] = "returned"
    /\ ret[1] = Returned(RecorderResult(rec[1]), TRUE, NilError)
    /\ pc[2] = "returned"
    /\ ret[2] = Returned(EmptyResponse, TRUE, NilError)

\* the invocations that have left ServeHTTP
Finished == {p \in Procs : pc[p] \in {"returned", "panicked"}}

\* C36 as stated, for the reporter of the server's tests: once the
\* invocations have finished, the Errorf buffer holds one entry for every
\* Errorf call each of them made, none lost to a concurrent append.
C36_AllReportsRecorded ==
    (calls # <<>> /\ Started = Finished) =>
        \A p \in Started :
            got[p].ok =>
                LET input == got[p].call.Input
                    made == server_handleCall(NewRecorder, req[p], got[p].call,
                                              SortedKeys(DOMAIN input.URL.Query),
                                              SortedKeys(DOMAIN input.Header),
                                              SortedKeys(DOMAIN got[p].call.Response.Header))
                IN  Len(ServerEmittedOf(num[p])) = Len(made.reports)

\* C37 as stated: for raw bytes of any length n >= 0 Base64.Bytes returns
\* their complete standard encoding, 4 * ceil(n / 3) bytes, and does not
\* fail or write outside its buffer.
C37_Base64Complete ==
    b64Applied =>
        /\ b64Out.panic = "none"
        /\ b64Out.bytes = StdEncoding_Encoded(b64Raw)
        /\ Len(b64Out.bytes) = 4 * ((Len(b64Raw) + 2) \div 3)

====
